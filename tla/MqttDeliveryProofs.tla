------------------------- MODULE MqttDeliveryProofs -------------------------
(***************************************************************************)
(* Theorems of StreamMqtt about the way of a publication from one stream   *)
(* to the other, for every number of packet ids, losses, resends and       *)
(* attempts: none is lost without being given up (NoSilentLoss), one of    *)
(* QoS 2 is not given to the application twice (ExactlyOnce), and the      *)
(* client's side of it implements MqttDelivery (ClientDelivers).           *)
(*                                                                         *)
(* The way to a stream is what it has read and what it will read, buffer   *)
(* and net together (Wire).  For the publications of one stream a step of  *)
(* the two is of one of six kinds (StepKinds): it is idle, submits a       *)
(* frame, resends or gives up the head, or one of the streams takes a      *)
(* PUBLISH, a PUBREL or an acknowledgement.  The invariants are proved for *)
(* these kinds, with what a step adds to the ways (Carries) and to what is *)
(* received, and no longer for each call and handler.                      *)
(***************************************************************************)
EXTENDS StreamMqttProofs

-----------------------------------------------------------------------------
(* Copies of a frame in a queue.                                           *)

Places(f, q) == {k \in DOMAIN q : q[k] = f}

(* A queue holds finitely many copies, none of a frame that is not in it,   *)
(* and at most one of a frame that does not come before itself.             *)
LEMMA CopiesNumber ==
    ASSUME NEW S, NEW q \in Seq(S), NEW f
    PROVE  /\ IsFiniteSet(Places(f, q)) /\ Copies(f, q) \in Nat
           /\ Copies(f, q) = Cardinality(Places(f, q))
           /\ f \in ToSet(q) <=> Copies(f, q) > 0
           /\ ~Before(q, f, f) => Copies(f, q) <= 1
<1>1. IsFiniteSet(DOMAIN q)
  BY FS_Interval
<1>2. Places(f, q) \in SUBSET DOMAIN q /\ Copies(f, q) = Cardinality(Places(f, q))
  BY DEF Places, Copies
<1>3. IsFiniteSet(Places(f, q)) /\ Copies(f, q) \in Nat
  BY <1>1, <1>2, FS_Subset, FS_CardinalityType
<1>4. Copies(f, q) = 0 <=> Places(f, q) = {}
  BY <1>2, <1>3, FS_EmptySet
<1>5. f \in ToSet(q) <=> Places(f, q) # {}
  BY DEF ToSet, Places
<1>6. ASSUME ~Before(q, f, f)
      PROVE  Copies(f, q) <= 1
  <2>1. CASE Places(f, q) = {}
    BY <1>4, <2>1
  <2>2. CASE Places(f, q) # {}
    <3>1. PICK k : k \in Places(f, q)
      BY <2>2
    <3>2. \A j \in Places(f, q) : j = k
      <4> SUFFICES ASSUME NEW j \in Places(f, q) PROVE j = k
        OBVIOUS
      <4>1. j \in Int /\ k \in Int /\ j \in DOMAIN q /\ k \in DOMAIN q /\ q[j] = f /\ q[k] = f
        BY <3>1 DEF Places
      <4>2. ~(j < k) /\ ~(k < j)
        BY <1>6, <4>1 DEF Before
      <4> QED
        BY <4>1, <4>2
    <3>3. Places(f, q) = {k}
      BY <3>1, <3>2
    <3>4. Cardinality({k}) = 1
      BY FS_Singleton
    <3> QED
      BY <3>3, <3>4, <1>2
  <2> QED
    BY <2>1, <2>2
<1>7. f \in ToSet(q) <=> Copies(f, q) > 0
  BY <1>3, <1>4, <1>5
<1> QED
  BY <1>2, <1>3, <1>6, <1>7

(* Copies add up when a queue is put behind another.                        *)
LEMMA CopiesConcat ==
    ASSUME NEW S, NEW q \in Seq(S), NEW r \in Seq(S), NEW f
    PROVE  Copies(f, q \o r) = Copies(f, q) + Copies(f, r)
<1> DEFINE n == Len(q)
           K == Places(f, r)
           shift == [k \in K |-> n + k]
           T == {n + k : k \in K}
<1>1. n \in Nat /\ DOMAIN q = 1..n /\ DOMAIN r = 1..Len(r) /\ Len(r) \in Nat
  OBVIOUS
<1>2. /\ IsFiniteSet(Places(f, q)) /\ IsFiniteSet(K)
      /\ Copies(f, q) = Cardinality(Places(f, q)) /\ Copies(f, r) = Cardinality(K)
  BY CopiesNumber
<1>3. \A k \in K : k \in Nat /\ k > 0
  BY <1>1 DEF Places
<1>4. IsFiniteSet(T) /\ Cardinality(T) = Cardinality(K)
  <2> HIDE DEF K, n
  <2>1. shift \in Injection(K, T)
    BY <1>1, <1>3 DEF Injection, IsInjective
  <2>2. shift \in Surjection(K, T)
    BY DEF Surjection
  <2>3. IsFiniteSet(T) /\ (Cardinality(T) = Cardinality(K) <=> shift \in Injection(K, T))
    BY <1>2, <2>2, FS_Surjection
  <2> QED
    BY <2>1, <2>3
<1>5. Places(f, q \o r) = Places(f, q) \cup T
  <2>1. ASSUME NEW k \in Places(f, q \o r)
        PROVE  k \in Places(f, q) \cup T
    <3>1. k \in 1..(n + Len(r)) /\ (q \o r)[k] = f
      BY <1>1 DEF Places
    <3>2. CASE k <= n
      BY <1>1, <3>1, <3>2 DEF Places
    <3>3. CASE k > n
      <4>1. k - n \in DOMAIN r /\ r[k - n] = f /\ k = n + (k - n)
        BY <1>1, <3>1, <3>3
      <4>2. k - n \in K
        BY <4>1 DEF Places
      <4> HIDE DEF K, n
      <4> QED
        BY <4>1, <4>2
    <3> QED
      BY <1>1, <3>1, <3>2, <3>3
  <2>2. ASSUME NEW k \in Places(f, q)
        PROVE  k \in Places(f, q \o r)
    BY <1>1 DEF Places
  <2>3. ASSUME NEW k \in K
        PROVE  n + k \in Places(f, q \o r)
    BY <1>1 DEF Places
  <2> HIDE DEF K, n
  <2> QED
    BY <2>1, <2>2, <2>3
<1>6. Places(f, q) \cap T = {}
  BY <1>1, <1>3 DEF Places
<1>7. Cardinality(Places(f, q \o r)) = Cardinality(Places(f, q)) + Cardinality(T) - 0
  <2> HIDE DEF K, T
  <2> QED
    BY <1>2, <1>4, <1>5, <1>6, FS_Union, FS_EmptySet
<1>8. Copies(f, q \o r) = Cardinality(Places(f, q \o r))
  BY DEF Places, Copies
<1>9. Cardinality(K) \in Nat /\ Cardinality(Places(f, q)) \in Nat
  BY <1>2, FS_CardinalityType
<1> HIDE DEF K, T
<1> QED
  BY <1>2, <1>4, <1>7, <1>8, <1>9

(* A queue of one frame holds one copy of it and none of another.           *)
LEMMA CopiesSingle ==
    ASSUME NEW x, NEW f
    PROVE  Copies(f, <<x>>) = IF x = f THEN 1 ELSE 0
<1>1. Places(f, <<x>>) = IF x = f THEN {1} ELSE {}
  BY DEF Places
<1>2. Copies(f, <<x>>) = Cardinality(Places(f, <<x>>))
  BY DEF Places, Copies
<1> QED
  BY <1>1, <1>2, FS_Singleton, FS_EmptySet

-----------------------------------------------------------------------------
(* The way to a stream: what its peer wrote and it has not handled yet.    *)

Wire(q) == buffer[q] \o net[q]

OnWire(q) == ToSet(Wire(q))

\* On the way to q, x comes before y.
Ahead(q, x, y) == Before(Wire(q), x, y)

\* In this step the way to q only gains frames of the set F, behind the others.
Carries(q, F) ==
    /\ OnWire(q)' \subseteq OnWire(q) \cup F
    /\ \A x, y : Ahead(q, x, y)' => \/ Ahead(q, x, y)
                                    \/ x \in OnWire(q) \cup F /\ y \in F

(* The other stream of the pair.                                            *)
LEMMA OtherPeer ==
    \A p \in Peers : /\ Other(p) \in Peers /\ Other(p) # p /\ Other(Other(p)) = p
                     /\ \A r \in Peers : r = p \/ r = Other(p)
  BY PeersAssumption DEF Other, Peers

(* Only frames are on their way.                                            *)
LEMMA WireTyped ==
    ASSUME TypeOK, NEW q \in Peers
    PROVE  /\ buffer[q] \in Seq(FrameType) /\ net[q] \in Seq(FrameType)
           /\ Wire(q) \in Seq(FrameType) /\ OnWire(q) \subseteq FrameType
<1>1. buffer[q] \in Seq(FrameType) /\ net[q] \in Seq(FrameType)
  BY DEF TypeOK
<1>2. Wire(q) \in Seq(FrameType)
  BY <1>1 DEF Wire
<1> QED
  BY <1>1, <1>2, QueueTyped DEF OnWire

(* Entries that come one before the other are entries.                      *)
LEMMA BeforeEntries == \A q, x, y : Before(q, x, y) => x \in ToSet(q) /\ y \in ToSet(q)
  BY DEF Before, ToSet

(* Frames written one after the other (stream_mqtt_real_write) stay in      *)
(* their order however their writes are grouped.                            *)
LEMMA FramesAssociate ==
    \A q, r, t \in Seq(FrameType) : q \o (r \o t) = (q \o r) \o t
  BY ConcatAssociates

(* A way that stays as it is.                                               *)
LEMMA WireKept ==
    ASSUME NEW q, Wire(q)' = Wire(q)
    PROVE  \A F : Carries(q, F)
  BY DEF Carries, OnWire, Ahead

(* Frames written to a peer that runs are behind all others.                *)
LEMMA WireWritten ==
    ASSUME TypeOK, NEW p \in Peers, NEW frames \in Seq(FrameType), Writes(p, frames),
           buffer'[Other(p)] = buffer[Other(p)]
    PROVE  /\ Wire(Other(p))' = IF alive[Other(p)] THEN Wire(Other(p)) \o frames
                                                   ELSE Wire(Other(p))
           /\ Carries(Other(p), ToSet(frames))
           /\ net'[p] = net[p]
<1> DEFINE q == Other(p)
<1>0. q \in Peers /\ q # p
  BY OtherPeer
<1> HIDE DEF q
<1>1. net \in [Peers -> Seq(FrameType)] /\ Wire(q) \in Seq(FrameType)
  BY <1>0, WireTyped DEF TypeOK
<1>2. net'[p] = net[p] /\ net'[q] = IF alive[q] THEN net[q] \o frames ELSE net[q]
  BY <1>0, <1>1 DEF Writes, q
<1>3. Wire(q)' = IF alive[q] THEN Wire(q) \o frames ELSE Wire(q)
  <2>1. buffer'[q] = buffer[q]
    BY DEF q
  <2>2. buffer[q] \o (net[q] \o frames) = (buffer[q] \o net[q]) \o frames
    <3>1. buffer[q] \in Seq(FrameType) /\ net[q] \in Seq(FrameType)
      BY <1>0, WireTyped
    <3> QED
      BY <3>1, FramesAssociate
  <2> QED
    BY <1>2, <2>1, <2>2 DEF Wire
<1>4. Carries(q, ToSet(frames))
  <2>1. CASE ~alive[q]
    BY <1>3, <2>1, WireKept
  <2>2. CASE alive[q]
    <3>1. /\ ToSet(Wire(q) \o frames) = ToSet(Wire(q)) \cup ToSet(frames)
          /\ \A x, y : Before(Wire(q) \o frames, x, y) <=>
                \/ Before(Wire(q), x, y) \/ Before(frames, x, y)
                \/ x \in ToSet(Wire(q)) /\ y \in ToSet(frames)
      BY <1>1, ConcatEntries
    <3>2. Wire(q)' = Wire(q) \o frames
      BY <1>3, <2>2
    <3>3. OnWire(q)' = OnWire(q) \cup ToSet(frames)
      BY <3>1, <3>2 DEF OnWire
    <3>4. \A x, y : Ahead(q, x, y)' => \/ Ahead(q, x, y)
                                       \/ x \in OnWire(q) \cup ToSet(frames) /\ y \in ToSet(frames)
      BY <3>1, <3>2, BeforeEntries DEF OnWire, Ahead
    <3> QED
      BY <3>3, <3>4 DEF Carries
  <2> QED
    BY <2>1, <2>2
<1> QED
  BY <1>2, <1>3, <1>4 DEF q

(* Frames that move from the wire to the buffer stay where they are.        *)
LEMMA WireRead ==
    ASSUME TypeOK, NEW q \in Peers, Read(q)
    PROVE  Wire(q)' = Wire(q) /\ Wire(Other(q))' = Wire(Other(q))
<1>1. PICK n \in 1..Len(net[q]) :
           /\ buffer' = [buffer EXCEPT ![q] = SubSeq(net[q], 1, n)]
           /\ net' = [net EXCEPT ![q] = SubSeq(@, n + 1, Len(@))]
  BY DEF Read
<1>2. Other(q) \in Peers /\ Other(q) # q
  BY OtherPeer
<1>3. buffer \in [Peers -> Seq(FrameType)] /\ net \in [Peers -> Seq(FrameType)]
  BY DEF TypeOK
<1>4. buffer[q] = <<>> /\ net[q] \in Seq(FrameType)
  BY <1>3 DEF Read
<1>5. SubSeq(net[q], 1, n) \o SubSeq(net[q], n + 1, Len(net[q])) = net[q]
  BY <1>4
<1>6. Wire(q) = net[q]
  BY <1>4 DEF Wire
<1>7. buffer'[q] \o net'[q] = net[q]
  BY <1>1, <1>3, <1>5
<1>8. buffer'[Other(q)] = buffer[Other(q)] /\ net'[Other(q)] = net[Other(q)]
  BY <1>1, <1>2, <1>3
<1> QED
  BY <1>6, <1>7, <1>8 DEF Wire

(* A frame that is lost leaves the others in their order.                   *)
LEMMA WireLost ==
    ASSUME TypeOK, NEW q \in Peers, NEW D,
           buffer'[q] = buffer[q], net'[q] = Without(net[q], D)
    PROVE  Carries(q, {})
<1> DEFINE b == buffer[q]
           w == Without(net[q], D)
<1>1. b \in Seq(FrameType) /\ net[q] \in Seq(FrameType) /\ w \in Seq(FrameType)
  BY WireTyped, WithoutType
<1>2. /\ ToSet(w) \subseteq ToSet(net[q])
      /\ \A x, y : Before(w, x, y) => Before(net[q], x, y)
  <2>1. /\ ToSet(w) = {net[q][k] : k \in DOMAIN net[q] \ D}
        /\ \A x, y : Before(w, x, y) =>
             \E i, j \in DOMAIN net[q] \ D : i < j /\ net[q][i] = x /\ net[q][j] = y
    BY <1>1, WithoutOrder
  <2> HIDE DEF w
  <2>2. ToSet(w) \subseteq ToSet(net[q])
    BY <2>1 DEF ToSet
  <2>3. \A x, y : Before(w, x, y) => Before(net[q], x, y)
    BY <2>1 DEF Before
  <2> QED
    BY <2>2, <2>3
<1>3. /\ ToSet(b \o w) = ToSet(b) \cup ToSet(w)
      /\ \A x, y : Before(b \o w, x, y) <=>
            Before(b, x, y) \/ Before(w, x, y) \/ (x \in ToSet(b) /\ y \in ToSet(w))
  BY <1>1, ConcatEntries
<1>4. /\ ToSet(b \o net[q]) = ToSet(b) \cup ToSet(net[q])
      /\ \A x, y : Before(b \o net[q], x, y) <=>
            Before(b, x, y) \/ Before(net[q], x, y) \/ (x \in ToSet(b) /\ y \in ToSet(net[q]))
  BY <1>1, ConcatEntries
<1>5. Wire(q) = b \o net[q] /\ Wire(q)' = b \o w
  BY DEF Wire
<1> HIDE DEF b, w
<1>6. OnWire(q)' \subseteq OnWire(q)
  BY <1>2, <1>3, <1>4, <1>5 DEF OnWire
<1>7. \A x, y : Ahead(q, x, y)' => Ahead(q, x, y)
  BY <1>2, <1>3, <1>4, <1>5 DEF Ahead
<1> QED
  BY <1>6, <1>7 DEF Carries

(* A frame that is handled was in front of those that stay.                 *)
LEMMA WireHandled ==
    ASSUME TypeOK, NEW q \in Peers, buffer[q] # <<>>,
           buffer' = [buffer EXCEPT ![q] = Tail(@)], net'[q] = net[q]
    PROVE  LET f == Head(buffer[q])
           IN  /\ f \in FrameType /\ f \in OnWire(q)
               /\ Wire(q) = <<f>> \o Wire(q)' /\ Wire(q)' \in Seq(FrameType)
               /\ Carries(q, {})
               /\ \A y \in OnWire(q)' : Ahead(q, f, y)
<1> DEFINE f == Head(buffer[q])
           t == Tail(buffer[q])
           w == t \o net[q]
<1>1. buffer[q] \in Seq(FrameType) /\ net[q] \in Seq(FrameType)
  BY WireTyped
<1>2. f \in FrameType /\ t \in Seq(FrameType) /\ buffer[q] = <<f>> \o t
  BY <1>1, HeadEntries
<1> HIDE DEF f, t
<1>3. w \in Seq(FrameType) /\ <<f>> \in Seq(FrameType)
  BY <1>1, <1>2
<1>4. Wire(q) = <<f>> \o w
  <2>1. (<<f>> \o t) \o net[q] = <<f>> \o (t \o net[q])
    BY <1>1, <1>2, <1>3, FramesAssociate
  <2> QED
    BY <1>2, <2>1 DEF Wire, w
<1>5. buffer'[q] = t
  BY DEF TypeOK, t
<1>6. Wire(q)' = w
  BY <1>5 DEF Wire
<1> HIDE DEF w
<1>7. /\ ToSet(<<f>> \o w) = ToSet(<<f>>) \cup ToSet(w)
      /\ \A x, y : Before(<<f>> \o w, x, y) <=>
            Before(<<f>>, x, y) \/ Before(w, x, y) \/ (x \in ToSet(<<f>>) /\ y \in ToSet(w))
  BY <1>3, ConcatEntries
<1>8. ToSet(<<f>>) = {f}
  BY SingleEntry
<1>9. f \in OnWire(q) /\ OnWire(q)' \subseteq OnWire(q)
  BY <1>4, <1>6, <1>7, <1>8 DEF OnWire
<1>10. \A x, y : Ahead(q, x, y)' => Ahead(q, x, y)
  BY <1>4, <1>6, <1>7 DEF Ahead
<1>11. \A y \in OnWire(q)' : Ahead(q, f, y)
  BY <1>4, <1>6, <1>7, <1>8 DEF OnWire, Ahead
<1>12. Carries(q, {})
  BY <1>9, <1>10 DEF Carries
<1>13. f \in FrameType /\ Wire(q) = <<f>> \o Wire(q)' /\ Wire(q)' \in Seq(FrameType)
  BY <1>2, <1>3, <1>4, <1>6
<1> QED
  BY <1>9, <1>11, <1>12, <1>13 DEF f

-----------------------------------------------------------------------------
(* What a stream has received, and how often.                              *)

Waiting(q) == ToSet(inbound[q])

Got(q) == ToSet(Received(q))

Count(q, f) == Copies(f, Received(q))

\* In this step q receives these frames.
Gains(q, frames) ==
    /\ Got(q)' = Got(q) \cup ToSet(frames)
    /\ \A f : Count(q, f)' = Count(q, f) + Copies(f, frames)

\* In this step q receives no publication.
SameReceived(q) ==
    \A f : f.type = "PUBLISH" =>
        /\ Count(q, f)' = Count(q, f)
        /\ f \in Got(q)' <=> f \in Got(q)

(* What is received are frames, and the received frames are those counted.  *)
LEMMA ReceivedTyped ==
    ASSUME TypeOK, NEW q \in Peers
    PROVE  /\ delivered[q] \in Seq(FrameType) /\ incoming[q] \in Seq(FrameType)
           /\ Received(q) \in Seq(FrameType)
           /\ Got(q) \subseteq FrameType
           /\ inbound[q] \in Seq(FrameType) /\ Waiting(q) \subseteq FrameType
           /\ \A f : Count(q, f) \in Nat /\ (f \in Got(q) <=> Count(q, f) > 0)
<1>1. /\ delivered[q] \in Seq(FrameType) /\ incoming[q] \in Seq(FrameType)
      /\ inbound[q] \in Seq(FrameType)
  BY DEF TypeOK
<1>2. Received(q) \in Seq(FrameType)
  BY <1>1 DEF Received
<1>3. Got(q) \subseteq FrameType /\ Waiting(q) \subseteq FrameType
  BY <1>1, <1>2, QueueTyped DEF Got, Waiting
<1>4. \A f : Count(q, f) \in Nat /\ (f \in Got(q) <=> Count(q, f) > 0)
  BY <1>2, CopiesNumber DEF Got, Count
<1> QED
  BY <1>1, <1>2, <1>3, <1>4

(* What a stream has received stays received.                               *)
LEMMA ReceivedKept ==
    ASSUME NEW q, Received(q)' = Received(q)
    PROVE  SameReceived(q)
  BY DEF SameReceived, Got, Count

(* Frames without a publication leave the publications as they are.         *)
LEMMA GainsOthers ==
    ASSUME TypeOK, NEW q \in Peers, NEW frames \in Seq(FrameType), Gains(q, frames),
           \A x \in ToSet(frames) : x.type # "PUBLISH"
    PROVE  SameReceived(q)
<1> SUFFICES ASSUME NEW f, f.type = "PUBLISH"
             PROVE  Count(q, f)' = Count(q, f) /\ (f \in Got(q)' <=> f \in Got(q))
  BY DEF SameReceived
<1>1. f \notin ToSet(frames)
  OBVIOUS
<1>2. Copies(f, frames) = 0
  BY <1>1, CopiesNumber
<1>3. Count(q, f) \in Nat
  BY ReceivedTyped
<1> QED
  BY <1>1, <1>2, <1>3 DEF Gains

(* Frames handled by an observer or queued for the application are received.*)
LEMMA NotifyGains ==
    ASSUME TypeOK, NEW p \in Peers, NEW frames \in Seq(FrameType), Notify(p, frames)
    PROVE  /\ Gains(p, frames)
           /\ \A r \in Peers : r # p => Received(r)' = Received(r)
<1> DEFINE d == delivered[p]
           i == incoming[p]
<1>1. d \in Seq(FrameType) /\ i \in Seq(FrameType) /\ Received(p) = d \o i
  BY ReceivedTyped DEF Received
<1>2. /\ ToSet(d \o i) = ToSet(d) \cup ToSet(i)
      /\ ToSet(d \o frames) = ToSet(d) \cup ToSet(frames)
      /\ ToSet(i \o frames) = ToSet(i) \cup ToSet(frames)
      /\ ToSet((d \o frames) \o i) = ToSet(d \o frames) \cup ToSet(i)
      /\ ToSet(d \o (i \o frames)) = ToSet(d) \cup ToSet(i \o frames)
  <2>1. d \o frames \in Seq(FrameType) /\ i \o frames \in Seq(FrameType)
    BY <1>1
  <2> QED
    BY <1>1, <2>1, ConcatEntries
<1>3. \A f : /\ Copies(f, d \o i) = Copies(f, d) + Copies(f, i)
             /\ Copies(f, (d \o frames) \o i) = (Copies(f, d) + Copies(f, frames)) + Copies(f, i)
             /\ Copies(f, d \o (i \o frames)) = Copies(f, d) + (Copies(f, i) + Copies(f, frames))
             /\ Copies(f, d) \in Nat /\ Copies(f, i) \in Nat /\ Copies(f, frames) \in Nat
  <2>1. d \o frames \in Seq(FrameType) /\ i \o frames \in Seq(FrameType)
    BY <1>1
  <2>2. TAKE f
  <2>3. Copies(f, d \o i) = Copies(f, d) + Copies(f, i)
    BY <1>1, CopiesConcat
  <2>4. Copies(f, (d \o frames) \o i) = (Copies(f, d) + Copies(f, frames)) + Copies(f, i)
    <3>1. Copies(f, d \o frames) = Copies(f, d) + Copies(f, frames)
      BY <1>1, CopiesConcat
    <3>2. Copies(f, (d \o frames) \o i) = Copies(f, d \o frames) + Copies(f, i)
      BY <1>1, <2>1, CopiesConcat
    <3> QED
      BY <3>1, <3>2
  <2>5. Copies(f, d \o (i \o frames)) = Copies(f, d) + (Copies(f, i) + Copies(f, frames))
    <3>1. Copies(f, i \o frames) = Copies(f, i) + Copies(f, frames)
      BY <1>1, CopiesConcat
    <3>2. Copies(f, d \o (i \o frames)) = Copies(f, d) + Copies(f, i \o frames)
      BY <1>1, <2>1, CopiesConcat
    <3> QED
      BY <3>1, <3>2
  <2>6. Copies(f, d) \in Nat /\ Copies(f, i) \in Nat /\ Copies(f, frames) \in Nat
    BY <1>1, CopiesNumber
  <2> QED
    BY <2>3, <2>4, <2>5, <2>6
<1>4. \/ delivered'[p] = d \o frames /\ incoming'[p] = i
      \/ delivered'[p] = d /\ incoming'[p] = i \o frames
  BY DEF Notify, Hand, TypeOK
<1>5. ASSUME NEW r \in Peers, r # p PROVE delivered'[r] = delivered[r] /\ incoming'[r] = incoming[r]
  BY <1>5 DEF Notify, Hand, TypeOK
<1> HIDE DEF d, i
<1>6. \/ Received(p)' = (d \o frames) \o i
      \/ Received(p)' = d \o (i \o frames)
  BY <1>4 DEF Received
<1>7. Got(p)' = Got(p) \cup ToSet(frames)
  BY <1>1, <1>2, <1>6 DEF Got
<1>8. \A f : Count(p, f)' = Count(p, f) + Copies(f, frames)
  <2>1. TAKE f
  <2>2. Count(p, f) = Copies(f, d) + Copies(f, i)
    BY <1>1, <1>3 DEF Count
  <2>3. \/ Count(p, f)' = (Copies(f, d) + Copies(f, frames)) + Copies(f, i)
        \/ Count(p, f)' = Copies(f, d) + (Copies(f, i) + Copies(f, frames))
    BY <1>3, <1>6 DEF Count
  <2> QED
    BY <1>3, <2>2, <2>3
<1> QED
  BY <1>5, <1>7, <1>8 DEF Gains, Received

(* A frame the application takes was received already.                      *)
LEMMA TakeFrameReceives ==
    ASSUME TypeOK, NEW p \in Peers, TakeFrame(p)
    PROVE  \A r \in Peers : Received(r)' = Received(r)
<1> DEFINE d == delivered[p]
           h == Head(incoming[p])
           t == Tail(incoming[p])
<1>1. d \in Seq(FrameType) /\ incoming[p] \in Seq(FrameType) /\ incoming[p] # <<>>
  BY ReceivedTyped DEF TakeFrame
<1>2. h \in FrameType /\ t \in Seq(FrameType) /\ incoming[p] = <<h>> \o t
  BY <1>1, HeadEntries
<1>3. delivered'[p] = d \o <<h>> /\ incoming'[p] = t
  BY DEF TakeFrame, Hand, TypeOK
<1>4. ASSUME NEW r \in Peers, r # p PROVE delivered'[r] = delivered[r] /\ incoming'[r] = incoming[r]
  BY <1>4 DEF TakeFrame, Hand, TypeOK
<1> HIDE DEF d, h, t
<1>5. d \o (<<h>> \o t) = (d \o <<h>>) \o t
  <2>1. <<h>> \in Seq(FrameType)
    BY <1>2
  <2> QED
    BY <1>1, <1>2, <2>1, FramesAssociate
<1>6. Received(p)' = Received(p)
  BY <1>2, <1>3, <1>5 DEF Received, d
<1> QED
  BY <1>4, <1>6 DEF Received

-----------------------------------------------------------------------------
(* The steps as the publications of p see them, p the sender, Other(p) the  *)
(* receiver.  Every step is of one of these kinds (StepKinds).              *)

SenderSame(p) ==
    /\ Published(p)' = Published(p)
    /\ Outgoing(p)' = Outgoing(p)
    /\ Abandoned(p)' = Abandoned(p)
    /\ requested'[p] = requested[p]

ReceiverSame(q) == inbound'[q] = inbound[q] /\ SameReceived(q)

Acks == {"PUBACK", "PUBREC", "PUBCOMP"}

\* Frames that are written again until they are acknowledged.
Waiters == {"PUBLISH", "PUBREL", "SUBSCRIBE", "UNSUBSCRIBE"}

\* The application of q owes the answer a.
AnswersRequest(q, a) ==
    a.type \in {"SUBACK", "UNSUBACK"} =>
        \E f \in todo[q] : f.type = RequestType(a.type) /\ f.id = a.id

\* No acknowledgement of a publication of p is written, and no answer that
\* the other application does not owe.
NoNewAck(p) ==
    \E B : Carries(p, B) /\ \A x \in B : x.type \notin Acks /\ AnswersRequest(Other(p), x)

\* The step is not about the publications of p.
Idle(p) ==
    /\ SenderSame(p) /\ ReceiverSame(Other(p)) /\ NoNewAck(p)
    /\ \E F : Carries(Other(p), F) /\ \A x \in F : x.type \notin Waiters

\* A publication or a request is written or queued.
Submits(p) ==
    /\ ReceiverSame(Other(p)) /\ NoNewAck(p)
    /\ Abandoned(p)' = Abandoned(p)
    /\ \E f \in FrameType :
        /\ \/ /\ f.type = "PUBLISH" /\ f.id \in PacketIds /\ f.arg \in QosLevels
              /\ \A g \in Published(p) : g.id # f.id
              /\ Published(p)' = Published(p) \cup {f}
              /\ requested'[p] = requested[p]
           \/ /\ f.type \in {"SUBSCRIBE", "UNSUBSCRIBE"} /\ f.arg = 0
              /\ f \notin requested[p]
              /\ requested'[p] = requested[p] \cup {f}
              /\ Published(p)' = Published(p)
        /\ \/ Outgoing(p)' = Outgoing(p) \cup {f}
           \/ f.type = "PUBLISH" /\ f.arg = 0 /\ Outgoing(p)' = Outgoing(p)
        /\ Carries(Other(p), {f})

\* One frame of outgoing is written, one may be abandoned.
Resends(p) ==
    /\ ReceiverSame(Other(p)) /\ NoNewAck(p)
    /\ Published(p)' = Published(p)
    /\ requested'[p] = requested[p]
    /\ \E H : /\ H = {} \/ \E h : H = {h}
              /\ Outgoing(p) = Outgoing(p)' \cup H
              /\ Abandoned(p)' = Abandoned(p) \cup H
    /\ \/ Carries(Other(p), {Frame("PINGREQ", NoId, 0)})
       \/ \E f \in Outgoing(p)' : Carries(Other(p), {Frame("PINGREQ", NoId, 0), f})

\* The answer to a publication that is not of QoS 2.
Puback(f) == IF f.arg = 1 THEN {Frame("PUBACK", f.id, 0)} ELSE {}

\* The receiver handles a PUBLISH: it keeps a message of QoS 2 and receives
\* any other.
TakesPublish(p) ==
    LET q == Other(p)
    IN  /\ SenderSame(p) /\ Carries(q, {})
        /\ \E f \in OnWire(q) :
            /\ f.type = "PUBLISH"
            /\ \A y \in OnWire(q)' : Ahead(q, f, y)
            /\ \/ /\ f.arg = 2
                  /\ inbound'[q] = ReplacingCopies(inbound[q], f)
                  /\ SameReceived(q)
                  /\ Carries(p, {Frame("PUBREC", f.id, 0)})
               \/ /\ f.arg # 2
                  /\ inbound'[q] = inbound[q]
                  /\ Gains(q, <<f>>)
                  /\ Carries(p, Puback(f))

\* Where the messages are that wait for the PUBREL with this packet id.
Awaits(q, id) == {k \in DOMAIN inbound[q] : inbound[q][k].id = id}

\* The receiver handles a PUBREL: it receives what waited for it.
TakesPubrel(p) ==
    LET q == Other(p)
    IN  /\ SenderSame(p) /\ Carries(q, {})
        /\ \E r \in OnWire(q) :
            /\ r.type = "PUBREL"
            /\ \A y \in OnWire(q)' : Ahead(q, r, y)
            /\ inbound'[q] = Without(inbound[q], Awaits(q, r.id))
            /\ Gains(q, Only(inbound[q], Awaits(q, r.id)))
            /\ Carries(p, {Frame("PUBCOMP", r.id, 0)})

\* The sender handles an acknowledgement.
TakesAck(p) ==
    LET q == Other(p)
    IN  /\ ReceiverSame(q) /\ Carries(p, {})
        /\ Published(p)' = Published(p)
        /\ Abandoned(p)' = Abandoned(p)
        /\ requested'[p] = requested[p]
        /\ \E a \in OnWire(p) :
            LET rest == {x \in Outgoing(p) : ~(x.type = RequestType(a.type) /\ x.id = a.id)}
                pubrel == Frame("PUBREL", a.id, 0)
            IN  /\ a.type \in Acks \cup {"SUBACK", "UNSUBACK"}
                /\ a.type \notin Acks => a \in Got(p)'
                /\ \A y \in OnWire(p)' : Ahead(p, a, y)
                /\ \/ /\ a.type = "PUBREC"
                      /\ Outgoing(p)' = rest \cup {pubrel} /\ Carries(q, {pubrel})
                   \/ /\ a.type # "PUBREC"
                      /\ Outgoing(p)' = rest /\ Carries(q, {})

\* The step leaves the queues of every stream, what they received and sent,
\* as they are, and the ways only gain frames that no publication needs.
Neutral(q) ==
    \E F : /\ Carries(q, F)
           /\ \A x \in F : x.type \notin Acks \cup Waiters /\ AnswersRequest(Other(q), x)

(* Such a step is idle for both streams.                                    *)
LEMMA NeutralIdle ==
    ASSUME UNCHANGED <<published, requested, outgoing, abandoned, inbound>>,
           \A q \in Peers : SameReceived(q) /\ Neutral(q)
    PROVE  \A p \in Peers : Idle(p)
<1> SUFFICES ASSUME NEW p \in Peers PROVE Idle(p)
  OBVIOUS
<1>1. Other(p) \in Peers
  BY OtherPeer
<1>2. SenderSame(p) /\ ReceiverSame(Other(p))
  BY <1>1 DEF SenderSame, ReceiverSame, Published, Outgoing, Abandoned
<1>3. NoNewAck(p)
  BY DEF Neutral, NoNewAck
<1>4. \E F : Carries(Other(p), F) /\ \A x \in F : x.type \notin Waiters
  BY <1>1 DEF Neutral
<1> QED
  BY <1>2, <1>3, <1>4 DEF Idle

(* A step that reads or writes nothing, and one that only writes a frame.   *)
LEMMA NeutralWays ==
    ASSUME TypeOK, NEW p \in Peers, UNCHANGED buffer,
           \/ UNCHANGED net
           \/ \E f \in FrameType : /\ f.type \notin Acks \cup Waiters /\ AnswersRequest(p, f)
                                   /\ Writes(p, <<f>>)
    PROVE  \A q \in Peers : Neutral(q)
<1>1. CASE UNCHANGED net
  <2> SUFFICES ASSUME NEW q \in Peers PROVE Neutral(q)
    OBVIOUS
  <2>1. Wire(q)' = Wire(q)
    BY <1>1 DEF Wire
  <2>2. Carries(q, {})
    BY <2>1, WireKept
  <2> QED
    BY <2>2 DEF Neutral
<1>2. ASSUME NEW f \in FrameType, f.type \notin Acks \cup Waiters, AnswersRequest(p, f),
             Writes(p, <<f>>)
      PROVE  \A q \in Peers : Neutral(q)
  <2>1. <<f>> \in Seq(FrameType) /\ ToSet(<<f>>) = {f}
    BY SingleEntry
  <2>2. Carries(Other(p), {f}) /\ net'[p] = net[p]
    BY <1>2, <2>1, WireWritten
  <2>3. Wire(p)' = Wire(p)
    BY <2>2 DEF Wire
  <2>4. Carries(p, {})
    BY <2>3, WireKept
  <2>5. Neutral(p) /\ Neutral(Other(p))
    BY <1>2, <2>2, <2>4, OtherPeer DEF Neutral
  <2> QED
    BY <2>5, OtherPeer
<1> QED
  BY <1>1, <1>2

(* Calls that publish and request nothing, reads and the environment.       *)
LEMMA OtherSteps ==
    ASSUME TypeOK,
           \/ UNCHANGED vars \/ Tick
           \/ \E r \in Peers : \/ Connect(r) \/ Answer(r) \/ Disconnect(r) \/ ByteCall(r)
                               \/ Read(r) \/ TakeFrame(r) \/ Lose(r) \/ Crash(r)
    PROVE  \A p \in Peers : Idle(p)
<1>1. UNCHANGED <<published, requested, outgoing, abandoned, inbound>>
  BY DEF Tick, Connect, Answer, Disconnect, ByteCall, Read, TakeFrame, Lose, Crash,
         vars, resendVars, callVars
<1>2. \A q \in Peers : SameReceived(q)
  <2>1. CASE \E r \in Peers : TakeFrame(r)
    BY <2>1, TakeFrameReceives, ReceivedKept
  <2>2. CASE ~ \E r \in Peers : TakeFrame(r)
    <3>1. UNCHANGED <<delivered, incoming>>
      BY <2>2
      DEF Tick, Connect, Answer, Disconnect, ByteCall, Read, Lose, Crash, vars, recvVars
    <3>2. \A q \in Peers : Received(q)' = Received(q)
      BY <3>1 DEF Received
    <3> QED
      BY <3>2, ReceivedKept
  <2> QED
    BY <2>1, <2>2
<1>3. \A q \in Peers : Neutral(q)
  <2>1. CASE UNCHANGED vars \/ Tick
    BY <2>1, NeutralWays, OtherPeer DEF vars, Tick, Peers
  <2>2. ASSUME NEW r \in Peers, ByteCall(r) \/ TakeFrame(r)
        PROVE  \A q \in Peers : Neutral(q)
    BY <2>2, NeutralWays DEF ByteCall, TakeFrame
  <2>3. ASSUME NEW r \in Peers, Connect(r)
        PROVE  \A q \in Peers : Neutral(q)
    <3>1. PICK ka \in KeepAlives : Writes(r, <<Frame("CONNECT", NoId, ka)>>)
      BY <2>3 DEF Connect
    <3>2. Frame("CONNECT", NoId, ka) \in FrameType
      BY AppAssumption, FrameTyped DEF FrameTypes
    <3>3. Frame("CONNECT", NoId, ka).type = "CONNECT" /\ UNCHANGED buffer
      BY <2>3 DEF Frame, Connect
    <3> QED
      BY <3>1, <3>2, <3>3, NeutralWays DEF Acks, Waiters, AnswersRequest
  <2>4. ASSUME NEW r \in Peers, Answer(r)
        PROVE  \A q \in Peers : Neutral(q)
    <3>1. PICK f \in todo[r], code \in ReturnCodes :
               Writes(r, <<Frame(AnswerType(f.type), f.id, code)>>)
      BY <2>4 DEF Answer
    <3>2. f \in FrameType /\ f.type \in Requests /\ code \in Nat
      BY AppAssumption DEF TypeOK
    <3>3. AnswerType(f.type) \in FrameTypes \ (Acks \cup Waiters)
      BY <3>2 DEF AnswerType, Requests, FrameTypes, Acks, Waiters
    <3>4. f.id \in PacketIds \cup {NoId}
      BY <3>2 DEF FrameType
    <3>5. Frame(AnswerType(f.type), f.id, code) \in FrameType
      BY <3>2, <3>3, <3>4, FrameTyped
    <3>6. Frame(AnswerType(f.type), f.id, code).type = AnswerType(f.type) /\ UNCHANGED buffer
      BY <2>4 DEF Frame, Answer
    <3>7. AnswersRequest(r, Frame(AnswerType(f.type), f.id, code))
      <4>1. AnswerType(f.type) \in {"SUBACK", "UNSUBACK"} => f.type = RequestType(AnswerType(f.type))
        BY <3>2 DEF AnswerType, RequestType, Requests
      <4> QED
        BY <4>1 DEF AnswersRequest, Frame
    <3> HIDE DEF Acks
    <3> QED
      BY <3>1, <3>3, <3>5, <3>6, <3>7, NeutralWays
  <2>5. ASSUME NEW r \in Peers, Disconnect(r)
        PROVE  \A q \in Peers : Neutral(q)
    <3>1. Frame("DISCONNECT", NoId, 0) \in FrameType
      BY FrameTyped DEF FrameTypes
    <3>2. Frame("DISCONNECT", NoId, 0).type = "DISCONNECT" /\ UNCHANGED buffer
      BY <2>5 DEF Frame, Disconnect
    <3>3. Writes(r, <<Frame("DISCONNECT", NoId, 0)>>)
      BY <2>5 DEF Disconnect
    <3> QED
      BY <3>1, <3>2, <3>3, NeutralWays DEF Acks, Waiters, AnswersRequest
  <2>6. ASSUME NEW r \in Peers, Read(r)
        PROVE  \A q \in Peers : Neutral(q)
    <3>1. \A q \in Peers : Carries(q, {})
      BY <2>6, WireRead, WireKept, OtherPeer
    <3> QED
      BY <3>1 DEF Neutral
  <2>7. ASSUME NEW r \in Peers, Lose(r) \/ Crash(r)
        PROVE  \A q \in Peers : Neutral(q)
    <3>1. Carries(r, {})
      <4>1. \E D : net' = [net EXCEPT ![r] = Without(net[r], D)]
        <5>1. CASE Lose(r)
          BY <5>1 DEF Lose
        <5>2. CASE Crash(r)
          <6>1. Without(net[r], DOMAIN net[r]) = <<>>
            <7>1. Without(net[r], DOMAIN net[r]) \in Seq(FrameType)
              BY WireTyped, WithoutType
            <7>2. DOMAIN Without(net[r], DOMAIN net[r]) = {}
              BY WireTyped, WithoutEntries
            <7> QED
              BY <7>1, <7>2
          <6> QED
            BY <5>2, <6>1 DEF Crash
        <5> QED
          BY <2>7, <5>1, <5>2
      <4>2. PICK D : net' = [net EXCEPT ![r] = Without(net[r], D)]
        BY <4>1
      <4>3. net'[r] = Without(net[r], D) /\ buffer'[r] = buffer[r]
        BY <2>7, <4>2 DEF TypeOK, Lose, Crash
      <4> QED
        BY <4>3, WireLost
    <3>2. Wire(Other(r))' = Wire(Other(r))
      <4>1. Other(r) \in Peers /\ Other(r) # r
        BY OtherPeer
      <4>2. net'[Other(r)] = net[Other(r)] /\ buffer' = buffer
        BY <2>7, <4>1 DEF Lose, Crash, TypeOK
      <4> QED
        BY <4>2 DEF Wire
    <3>3. Carries(Other(r), {})
      BY <3>2, WireKept
    <3> QED
      BY <3>1, <3>3, OtherPeer DEF Neutral
  <2> QED
    BY <2>1, <2>2, <2>3, <2>4, <2>5, <2>6, <2>7
<1> QED
  BY <1>1, <1>2, <1>3, NeutralIdle

(* What a step of r leaves alone for the stream on the other side.          *)
LEMMA OtherSideIdle ==
    ASSUME TypeOK, NEW r \in Peers,
           published'[Other(r)] = published[Other(r)],
           requested'[Other(r)] = requested[Other(r)],
           outgoing'[Other(r)] = outgoing[Other(r)],
           abandoned'[Other(r)] = abandoned[Other(r)],
           ReceiverSame(r),
           \E F : Carries(r, F) /\ \A x \in F : x.type \notin Waiters,
           NoNewAck(Other(r))
    PROVE  Idle(Other(r))
<1>1. Other(Other(r)) = r
  BY OtherPeer
<1>2. SenderSame(Other(r))
  BY DEF SenderSame, Published, Outgoing, Abandoned
<1> QED
  BY <1>1, <1>2 DEF Idle

(* What is queued are the frames of the items.                              *)
LEMMA OutgoingItems ==
    ASSUME TypeOK, NEW p \in Peers
    PROVE  /\ outgoing[p] \in Seq(ItemType)
           /\ Outgoing(p) \subseteq FrameType
           /\ Outgoing(p) = {FrameOf(outgoing[p][k]) : k \in DOMAIN outgoing[p]}
<1>1. outgoing[p] \in Seq(ItemType)
  BY DEF TypeOK
<1>2. Outgoing(p) = {FrameOf(outgoing[p][k]) : k \in DOMAIN outgoing[p]}
  BY DEF Outgoing, ToSet
<1>3. \A k \in DOMAIN outgoing[p] : FrameOf(outgoing[p][k]) \in FrameType
  BY <1>1, FrameTyped
<1> QED
  BY <1>1, <1>2, <1>3

(* A frame keeps its parts in an item of the queue.                         *)
LEMMA FrameOfItem ==
    \A f \in FrameType, n \in Nat : FrameOf(Item(f, n)) = f
  BY DEF FrameOf, Item, Frame, FrameType

(* stream_mqtt_publish_message, stream_mqtt_subscribe and                   *)
(* stream_mqtt_unsubscribe write or queue one frame.                        *)
LEMMA SubmitQueues ==
    ASSUME TypeOK, NEW p \in Peers, NEW f \in FrameType, NEW acknowledged \in BOOLEAN,
           Submit(p, f, acknowledged), UNCHANGED buffer
    PROVE  /\ \/ Outgoing(p)' = Outgoing(p) \cup {f}
              \/ ~acknowledged /\ Outgoing(p)' = Outgoing(p)
           /\ Carries(Other(p), {f}) /\ Carries(p, {})
           /\ outgoing'[Other(p)] = outgoing[Other(p)]
<1>1. Other(p) \in Peers /\ Other(p) # p
  BY OtherPeer
<1>2. outgoing[p] \in Seq(ItemType) /\ \A n \in Nat : Item(f, n) \in ItemType
  BY FrameTyped DEF TypeOK
<1>3. /\ outgoing'[Other(p)] = outgoing[Other(p)]
      /\ \/ ~acknowledged /\ outgoing'[p] = outgoing[p]
         \/ \E n \in Nat : outgoing'[p] = Append(outgoing[p], Item(f, n))
  BY <1>1 DEF Submit, TypeOK
<1>4. \A n \in Nat : ToSet(Append(outgoing[p], Item(f, n))) = ToSet(outgoing[p]) \cup {Item(f, n)}
  <2> SUFFICES ASSUME NEW n \in Nat
               PROVE  ToSet(Append(outgoing[p], Item(f, n))) = ToSet(outgoing[p]) \cup {Item(f, n)}
    OBVIOUS
  <2>1. <<Item(f, n)>> \in Seq(ItemType)
    BY <1>2
  <2>2. Append(outgoing[p], Item(f, n)) = outgoing[p] \o <<Item(f, n)>>
    BY <1>2
  <2>3. ToSet(outgoing[p] \o <<Item(f, n)>>) = ToSet(outgoing[p]) \cup ToSet(<<Item(f, n)>>)
    BY <1>2, <2>1, ConcatEntries
  <2> QED
    BY <2>2, <2>3, SingleEntry
<1>5. \/ Outgoing(p)' = Outgoing(p) \cup {f}
      \/ ~acknowledged /\ Outgoing(p)' = Outgoing(p)
  <2>1. CASE ~acknowledged /\ outgoing'[p] = outgoing[p]
    BY <2>1 DEF Outgoing
  <2>2. ASSUME NEW n \in Nat, outgoing'[p] = Append(outgoing[p], Item(f, n))
        PROVE  Outgoing(p)' = Outgoing(p) \cup {f}
    <3>1. ToSet(outgoing'[p]) = ToSet(outgoing[p]) \cup {Item(f, n)}
      BY <1>4, <2>2
    <3>2. FrameOf(Item(f, n)) = f
      BY FrameOfItem
    <3> QED
      BY <3>1, <3>2 DEF Outgoing
  <2> QED
    BY <1>3, <2>1, <2>2
<1>6. <<f>> \in Seq(FrameType) /\ ToSet(<<f>>) = {f}
  BY SingleEntry
<1>7. CASE Writes(p, <<f>>)
  <2>1. Carries(Other(p), {f}) /\ net'[p] = net[p]
    BY <1>6, <1>7, WireWritten
  <2>2. Wire(p)' = Wire(p)
    BY <2>1 DEF Wire
  <2> QED
    BY <1>3, <1>5, <2>1, <2>2, WireKept
<1>8. CASE UNCHANGED net
  <2>1. \A q : Wire(q)' = Wire(q)
    BY <1>8 DEF Wire
  <2> QED
    BY <1>3, <1>5, <2>1, WireKept
<1> QED
  BY <1>7, <1>8 DEF Submit

(* Calls that publish or request.                                           *)
LEMMA SubmitSteps ==
    ASSUME TypeOK, NEW r \in Peers, Publish(r) \/ Request(r)
    PROVE  Submits(r) /\ Idle(Other(r))
<1>0. Other(r) \in Peers /\ Other(r) # r
  BY OtherPeer
<1>1. /\ UNCHANGED <<abandoned, inbound, delivered, incoming, buffer>>
      /\ published'[Other(r)] = published[Other(r)]
      /\ requested'[Other(r)] = requested[Other(r)]
  BY <1>0 DEF Publish, Request, recvVars, TypeOK
<1>2. ReceiverSame(r) /\ ReceiverSame(Other(r))
  BY <1>1, ReceivedKept DEF ReceiverSame, Received
<1>3. ASSUME NEW f \in FrameType, NEW acknowledged \in BOOLEAN, Submit(r, f, acknowledged),
             acknowledged \/ (f.type = "PUBLISH" /\ f.arg = 0),
             f.type \in {"PUBLISH", "SUBSCRIBE", "UNSUBSCRIBE"},
             \/ /\ f.type = "PUBLISH" /\ f.id \in PacketIds /\ f.arg \in QosLevels
                /\ \A g \in Published(r) : g.id # f.id
                /\ Published(r)' = Published(r) \cup {f}
                /\ requested'[r] = requested[r]
             \/ /\ f.type \in {"SUBSCRIBE", "UNSUBSCRIBE"} /\ f.arg = 0
                /\ f \notin requested[r]
                /\ requested'[r] = requested[r] \cup {f}
                /\ Published(r)' = Published(r)
      PROVE  Submits(r) /\ Idle(Other(r))
  <2>1. /\ \/ Outgoing(r)' = Outgoing(r) \cup {f}
           \/ ~acknowledged /\ Outgoing(r)' = Outgoing(r)
        /\ Carries(Other(r), {f}) /\ Carries(r, {})
        /\ outgoing'[Other(r)] = outgoing[Other(r)]
    BY <1>1, <1>3, SubmitQueues
  <2>2. Submits(r)
    <3>1. NoNewAck(r)
      BY <2>1 DEF NoNewAck
    <3>2. Abandoned(r)' = Abandoned(r)
      BY <1>1 DEF Abandoned
    <3>3. \/ Outgoing(r)' = Outgoing(r) \cup {f}
          \/ f.type = "PUBLISH" /\ f.arg = 0 /\ Outgoing(r)' = Outgoing(r)
      BY <1>3, <2>1
    <3> QED
      BY <1>2, <1>3, <2>1, <3>1, <3>2, <3>3 DEF Submits
  <2>3. NoNewAck(Other(r))
    BY <1>3, <2>1 DEF NoNewAck, Acks, AnswersRequest
  <2>4. \E F : Carries(r, F) /\ \A x \in F : x.type \notin Waiters
    BY <2>1
  <2>5. Idle(Other(r))
    BY <1>1, <1>2, <2>1, <2>3, <2>4, OtherSideIdle
  <2> QED
    BY <2>2, <2>5
<1>4. CASE Publish(r)
  <2>1. PICK id \in PacketIds, qos \in QosLevels :
             /\ \A f \in ToSet(published[r]) : f.id # id
             /\ published' = [published EXCEPT ![r] = Append(@, Frame("PUBLISH", id, qos))]
             /\ Submit(r, Frame("PUBLISH", id, qos), qos > 0)
    BY <1>4 DEF Publish
  <2> DEFINE f == Frame("PUBLISH", id, qos)
  <2>2. qos \in Nat /\ (qos > 0) \in BOOLEAN
    BY AppAssumption
  <2>3. f \in FrameType /\ f.type = "PUBLISH" /\ f.id = id /\ f.arg = qos
    BY <2>2 DEF Frame, FrameType, FrameTypes
  <2> HIDE DEF f
  <2>4. Published(r)' = Published(r) \cup {f}
    <3>1. published[r] \in Seq(FrameType) /\ <<f>> \in Seq(FrameType)
      BY <2>3 DEF TypeOK
    <3>2. published'[r] = published[r] \o <<f>>
      BY <2>1, <3>1 DEF f, TypeOK
    <3>3. ToSet(published[r] \o <<f>>) = ToSet(published[r]) \cup ToSet(<<f>>)
      BY <3>1, ConcatEntries
    <3> QED
      BY <3>2, <3>3, SingleEntry DEF Published
  <2>5. (qos > 0) \/ f.arg = 0
    BY <2>2, <2>3
  <2>6. \A g \in Published(r) : g.id # f.id
    BY <2>1, <2>3 DEF Published
  <2>7. Submit(r, f, qos > 0)
    BY <2>1 DEF f
  <2>8. requested' = requested
    BY <1>4 DEF Publish
  <2> QED
    BY <1>3, <2>2, <2>3, <2>4, <2>5, <2>6, <2>7, <2>8
<1>5. CASE Request(r)
  <2>1. PICK type \in {"SUBSCRIBE", "UNSUBSCRIBE"}, id \in PacketIds :
             /\ Frame(type, id, 0) \notin requested[r]
             /\ requested'[r] = requested[r] \cup {Frame(type, id, 0)}
             /\ Submit(r, Frame(type, id, 0), TRUE)
    BY <1>5 DEF Request, TypeOK
  <2>2. /\ Frame(type, id, 0) \in FrameType
        /\ Frame(type, id, 0).type = type /\ Frame(type, id, 0).arg = 0
    BY DEF Frame, FrameType, FrameTypes
  <2>3. Published(r)' = Published(r)
    BY <1>5 DEF Request, Published
  <2> QED
    BY <1>3, <2>1, <2>2, <2>3
<1> QED
  BY <1>4, <1>5

\* The frames of the items of a queue.
FramesIn(q) == {FrameOf(item) : item \in ToSet(q)}

(* Writing the head once more leaves the frames as they are.                *)
LEMMA WrittenFrames ==
    ASSUME NEW q \in Seq(ItemType), q # <<>>
    PROVE  /\ Written(q) \in Seq(ItemType)
           /\ FramesIn(Written(q)) = FramesIn(q)
           /\ FramesIn(q) = FramesIn(Tail(q)) \cup {FrameOf(Head(q))}
<1> DEFINE h == Head(q)
           t == Tail(q)
           w == [q[1] EXCEPT !.sent = @ + 1]
<1>0. h = q[1]
  OBVIOUS
<1>1. h \in ItemType /\ t \in Seq(ItemType) /\ ToSet(q) = {h} \cup ToSet(t)
  BY HeadEntries
<1>2. w \in ItemType /\ FrameOf(w) = FrameOf(h)
  BY <1>0, <1>1 DEF ItemType, FrameOf, Frame
<1>3. Written(q) = <<w>> \o t
  BY DEF Written, InsertHead
<1> HIDE DEF h, t, w
<1>4. ToSet(<<w>> \o t) = {w} \cup ToSet(t) /\ <<w>> \o t \in Seq(ItemType)
  <2>1. <<w>> \in Seq(ItemType)
    BY <1>2
  <2>2. ToSet(<<w>> \o t) = ToSet(<<w>>) \cup ToSet(t)
    BY <1>1, <2>1, ConcatEntries
  <2> QED
    BY <1>1, <2>1, <2>2, SingleEntry
<1>5. FramesIn(Written(q)) = FramesIn(t) \cup {FrameOf(w)}
  BY <1>3, <1>4 DEF FramesIn
<1>6. FramesIn(q) = FramesIn(t) \cup {FrameOf(h)}
  BY <1>1 DEF FramesIn
<1> QED
  BY <1>2, <1>3, <1>4, <1>5, <1>6 DEF h, t

(* A way that carries the frames of a set carries those of a larger one.    *)
LEMMA CarriesMore ==
    ASSUME NEW q, NEW F, NEW G, Carries(q, F), F \subseteq G
    PROVE  Carries(q, G)
  BY DEF Carries

\* Frames that wait for an acknowledgement are no acknowledgements.
QueuesRequests ==
    \A p \in Peers : \A f \in Outgoing(p) :
        f.type \in {"PUBLISH", "PUBREL", "SUBSCRIBE", "UNSUBSCRIBE"}

(* stream_mqtt_do_time writes a ping and a frame of outgoing, or gives a    *)
(* frame up.                                                                *)
LEMMA TimeSteps ==
    ASSUME TypeOK, QueuesRequests, NEW r \in Peers, DoTime(r)
    PROVE  Resends(r) /\ Idle(Other(r))
<1> DEFINE ping == Frame("PINGREQ", NoId, 0)
           q == outgoing[r]
<1>0. Other(r) \in Peers /\ Other(r) # r
  BY OtherPeer
<1>1. UNCHANGED <<published, requested, inbound, delivered, incoming, buffer>>
  BY DEF DoTime, recvVars, callVars
<1>2. ReceiverSame(r) /\ ReceiverSame(Other(r))
  BY <1>1, ReceivedKept DEF ReceiverSame, Received
<1>3. Published(r)' = Published(r)
  BY <1>1 DEF Published
<1>4. q \in Seq(ItemType) /\ Outgoing(r) = FramesIn(q) /\ Outgoing(r)' = FramesIn(outgoing'[r])
  BY DEF TypeOK, Outgoing, FramesIn
<1>5. ping \in FrameType /\ ping.type = "PINGREQ"
  BY FrameTyped DEF FrameTypes, Frame
<1>6. ASSUME NEW frames \in Seq(FrameType), TimeWrites(r, frames)
      PROVE  Carries(Other(r), {ping} \cup ToSet(frames)) /\ Carries(r, {})
  <2> DEFINE pings == IF PingDue(r) THEN <<ping>> ELSE <<>>
  <2>1. pings \in Seq(FrameType) /\ ToSet(pings) \subseteq {ping}
    BY <1>5, SingleEntry, NoEntry
  <2>2. Writes(r, pings \o frames)
    BY <1>6 DEF TimeWrites
  <2> HIDE DEF pings, ping
  <2>3. /\ pings \o frames \in Seq(FrameType)
        /\ ToSet(pings \o frames) = ToSet(pings) \cup ToSet(frames)
    BY <2>1, ConcatEntries
  <2>4. Carries(Other(r), ToSet(pings \o frames)) /\ net'[r] = net[r]
    BY <1>1, <2>2, <2>3, WireWritten
  <2>5. Wire(r)' = Wire(r)
    BY <1>1, <2>4 DEF Wire
  <2> QED
    BY <2>1, <2>3, <2>4, <2>5, CarriesMore, WireKept
<1> HIDE DEF ping, q
<1>7. ASSUME NEW f \in FrameType, TimeWrites(r, <<f>>)
      PROVE  Carries(Other(r), {ping, f}) /\ Carries(r, {})
  <2>1. <<f>> \in Seq(FrameType) /\ ToSet(<<f>>) = {f}
    BY SingleEntry
  <2>2. Carries(Other(r), {ping} \cup ToSet(<<f>>)) /\ Carries(r, {})
    BY <1>6, <1>7, <2>1
  <2>3. {ping} \cup ToSet(<<f>>) = {ping, f}
    BY <2>1
  <2> QED
    BY <2>2, <2>3
<1>8. ASSUME TimeWrites(r, <<>>)
      PROVE  Carries(Other(r), {ping}) /\ Carries(r, {})
  <2>1. <<>> \in Seq(FrameType) /\ {ping} \cup ToSet(<<>>) = {ping}
    BY NoEntry
  <2>2. Carries(Other(r), {ping} \cup ToSet(<<>>)) /\ Carries(r, {})
    BY <1>6, <1>8, <2>1
  <2> QED
    BY <2>1, <2>2
<1>9. \A x \in ItemType : FrameOf(x) \in FrameType
  BY FrameTyped
\* What the four cases have in common.
<1> DEFINE Quits(H) == /\ H = {} \/ \E h : H = {h}
                       /\ Outgoing(r) = Outgoing(r)' \cup H
                       /\ Abandoned(r)' = Abandoned(r) \cup H
           Sends == \/ Carries(Other(r), {ping})
                    \/ \E f \in Outgoing(r)' : Carries(Other(r), {ping, f})
<1>10. /\ (\E H : Quits(H)) /\ Sends /\ Carries(r, {})
       /\ outgoing'[Other(r)] = outgoing[Other(r)] /\ abandoned'[Other(r)] = abandoned[Other(r)]
  <2>1. CASE ResendHead(r) \/ WriteNext(r)
    <3>1. /\ q # <<>> /\ TimeWrites(r, <<FrameOf(Head(q))>>) /\ UNCHANGED abandoned
          /\ outgoing' = [outgoing EXCEPT ![r] = Written(q)]
      BY <2>1 DEF ResendHead, ResendDue, WriteNext, NextDue, q
    <3>2. outgoing'[r] = Written(q) /\ outgoing'[Other(r)] = outgoing[Other(r)]
      BY <1>0, <3>1 DEF TypeOK
    <3>3. /\ FramesIn(Written(q)) = FramesIn(q) /\ FrameOf(Head(q)) \in FramesIn(q)
          /\ Head(q) \in ItemType
      BY <1>4, <3>1, WrittenFrames, HeadEntries
    <3>4. Carries(Other(r), {ping, FrameOf(Head(q))}) /\ Carries(r, {})
      BY <1>7, <1>9, <3>1, <3>3
    <3>5. Outgoing(r)' = Outgoing(r) /\ FrameOf(Head(q)) \in Outgoing(r)'
      BY <1>4, <3>2, <3>3
    <3>6. Quits({})
      BY <3>1, <3>5 DEF Abandoned
    <3> QED
      BY <3>1, <3>2, <3>4, <3>5, <3>6
  <2>2. CASE AbandonHead(r)
    <3> DEFINE rest == Tail(q)
    <3>1. q # <<>> /\ abandoned' = [abandoned EXCEPT ![r] = @ \cup {Head(q)}]
      BY <2>2 DEF AbandonHead, ResendDue, q
    <3>2. /\ Head(q) \in ItemType /\ rest \in Seq(ItemType)
          /\ FramesIn(q) = FramesIn(rest) \cup {FrameOf(Head(q))}
      BY <1>4, <3>1, WrittenFrames, HeadEntries
    <3>3. /\ Abandoned(r)' = Abandoned(r) \cup {FrameOf(Head(q))}
          /\ abandoned'[Other(r)] = abandoned[Other(r)]
      BY <1>0, <3>1 DEF Abandoned, TypeOK
    <3>4. CASE rest = <<>>
      <4>1. TimeWrites(r, <<>>) /\ outgoing' = [outgoing EXCEPT ![r] = rest]
        BY <2>2, <3>4 DEF AbandonHead, q
      <4>2. outgoing'[r] = rest /\ outgoing'[Other(r)] = outgoing[Other(r)]
        BY <1>0, <4>1 DEF TypeOK
      <4>3. Quits({FrameOf(Head(q))})
        BY <1>4, <3>2, <3>3, <4>2
      <4> QED
        BY <1>8, <3>3, <4>1, <4>2, <4>3
    <3>5. CASE rest # <<>>
      <4>1. /\ TimeWrites(r, <<FrameOf(Head(rest))>>)
            /\ outgoing' = [outgoing EXCEPT ![r] = Written(rest)]
        BY <2>2, <3>5 DEF AbandonHead, q
      <4>2. outgoing'[r] = Written(rest) /\ outgoing'[Other(r)] = outgoing[Other(r)]
        BY <1>0, <4>1 DEF TypeOK
      <4> HIDE DEF rest
      <4>3. /\ FramesIn(Written(rest)) = FramesIn(rest) /\ FrameOf(Head(rest)) \in FramesIn(rest)
            /\ Head(rest) \in ItemType
        BY <3>2, <3>5, WrittenFrames, HeadEntries
      <4>4. Quits({FrameOf(Head(q))}) /\ FrameOf(Head(rest)) \in Outgoing(r)'
        BY <1>4, <3>2, <3>3, <4>2, <4>3
      <4>5. Carries(Other(r), {ping, FrameOf(Head(rest))}) /\ Carries(r, {})
        BY <1>7, <1>9, <4>1, <4>3
      <4> QED
        BY <3>3, <4>2, <4>4, <4>5
    <3> QED
      BY <3>4, <3>5
  <2>3. CASE NothingToWrite(r)
    <3>1. TimeWrites(r, <<>>) /\ UNCHANGED <<outgoing, abandoned>>
      BY <2>3 DEF NothingToWrite, resendVars
    <3>2. Quits({})
      BY <3>1 DEF Outgoing, Abandoned
    <3> QED
      BY <1>8, <3>1, <3>2
  <2> QED
    BY <2>1, <2>2, <2>3 DEF DoTime
<1>11. Resends(r)
  <2>1. NoNewAck(r)
    BY <1>10 DEF NoNewAck
  <2>2. /\ \E H : Quits(H)
        /\ Sends
    BY <1>10
  <2> HIDE DEF Quits, Sends
  <2> QED
    BY <1>1, <1>2, <1>3, <2>1, <2>2 DEF Resends, Quits, Sends, ping
<1>12. Idle(Other(r))
  <2>1. NoNewAck(Other(r))
    <3>1. \A f \in Outgoing(r)' : f.type \notin Acks /\ AnswersRequest(r, f)
      BY <1>10 DEF QueuesRequests, Acks, AnswersRequest
    <3>2. ping.type \notin Acks /\ AnswersRequest(r, ping)
      BY <1>5 DEF Acks, AnswersRequest
    <3>3. Sends /\ Other(Other(r)) = r
      BY <1>10, OtherPeer
    <3>4. CASE Carries(Other(r), {ping})
      BY <3>2, <3>3, <3>4 DEF NoNewAck
    <3>5. ASSUME NEW f \in Outgoing(r)', Carries(Other(r), {ping, f})
          PROVE  NoNewAck(Other(r))
      <4>1. \A x \in {ping, f} : x.type \notin Acks /\ AnswersRequest(r, x)
        BY <3>1, <3>2
      <4> QED
        BY <3>3, <3>5, <4>1 DEF NoNewAck
    <3> QED
      BY <3>3, <3>4, <3>5
  <2>2. \E F : Carries(r, F) /\ \A x \in F : x.type \notin Waiters
    BY <1>10
  <2>3. /\ published'[Other(r)] = published[Other(r)]
        /\ requested'[Other(r)] = requested[Other(r)]
    BY <1>1
  <2> QED
    BY <1>2, <1>10, <2>1, <2>2, <2>3, OtherSideIdle
<1> QED
  BY <1>11, <1>12

(* The frames that stream_mqtt_handle_received_frame answers with.          *)
LEMMA AnswerTyped ==
    ASSUME NEW f \in FrameType
    PROVE  \A t \in FrameTypes : Frame(t, f.id, 0) \in FrameType /\ Frame(t, f.id, 0).type = t
  BY DEF Frame, FrameType

(* Items that stay when those of a type and packet id are removed.          *)
LEMMA AckedFrames ==
    ASSUME NEW q \in Seq(ItemType), NEW t, NEW i
    PROVE  /\ Without(q, Matches(q, t, i)) \in Seq(ItemType)
           /\ FramesIn(Without(q, Matches(q, t, i))) =
                {x \in FramesIn(q) : ~(x.type = t /\ x.id = i)}
<1> DEFINE D == Matches(q, t, i)
<1>1. Without(q, D) \in Seq(ItemType)
  BY WithoutType
<1>2. ToSet(Without(q, D)) = {q[k] : k \in DOMAIN q \ D}
  BY WithoutOrder
<1>3. \A x : FrameOf(x).type = x.type /\ FrameOf(x).id = x.id
  BY DEF FrameOf, Frame
<1>4. \A k \in DOMAIN q : k \in D <=> q[k].type = t /\ q[k].id = i
  BY DEF Matches
<1> HIDE DEF D
<1>5. FramesIn(Without(q, D)) = {FrameOf(q[k]) : k \in DOMAIN q \ D}
  BY <1>2 DEF FramesIn
<1>6. FramesIn(q) = {FrameOf(q[k]) : k \in DOMAIN q}
  BY DEF FramesIn, ToSet
<1>7. FramesIn(Without(q, D)) = {x \in FramesIn(q) : ~(x.type = t /\ x.id = i)}
  BY <1>3, <1>4, <1>5, <1>6
<1> QED
  BY <1>1, <1>7 DEF D

(* A frame handled by r: what all the cases have in common.                 *)
LEMMA HandlingWay ==
    ASSUME TypeOK, NEW r \in Peers, HandleReceivedFrame(r)
    PROVE  LET f == Head(buffer[r])
           IN  /\ f \in FrameType /\ f \in OnWire(r) /\ Carries(r, {})
               /\ \A y \in OnWire(r)' : Ahead(r, f, y)
               /\ UNCHANGED <<published, requested, abandoned>>
               /\ Received(Other(r))' = Received(Other(r))
               /\ outgoing'[Other(r)] = outgoing[Other(r)]
               /\ inbound'[Other(r)] = inbound[Other(r)]
               /\ \A frames \in Seq(FrameType) :
                    Writes(r, frames) => Carries(Other(r), ToSet(frames))
               /\ UNCHANGED net => Carries(Other(r), {})
<1> DEFINE f == Head(buffer[r])
<1>0. Other(r) \in Peers /\ Other(r) # r
  BY OtherPeer
<1>1. /\ buffer[r] # <<>> /\ buffer' = [buffer EXCEPT ![r] = Tail(@)]
      /\ UNCHANGED <<published, requested, abandoned>>
      /\ \/ ReceiveConnect(r, f) \/ ReceiveConnack(r, f) \/ ReceiveForApplication(r, f)
         \/ ReceivePublish(r, f) \/ ReceiveAck(r, f) \/ ReceivePubrel(r, f)
         \/ ReceivePing(r, f)
  BY DEF HandleReceivedFrame, callVars
<1> HIDE DEF f
<1>2. (\E frames : Writes(r, frames)) \/ UNCHANGED net
  BY <1>1 DEF ReceiveConnect, ReceiveConnack, ReceiveForApplication, ReceivePublish,
              ReceiveAck, ReceivePubrel, ReceivePing
<1>3. net'[r] = net[r]
  BY <1>0, <1>2 DEF Writes, TypeOK
<1>4. /\ f \in FrameType /\ f \in OnWire(r) /\ Carries(r, {})
      /\ \A y \in OnWire(r)' : Ahead(r, f, y)
  BY <1>1, <1>3, WireHandled DEF f
<1>5. /\ outgoing'[Other(r)] = outgoing[Other(r)]
      /\ inbound'[Other(r)] = inbound[Other(r)]
  BY <1>0, <1>1
  DEF ReceiveConnect, ReceiveConnack, ReceiveForApplication, ReceivePublish,
      ReceiveAck, ReceivePubrel, ReceivePing, TypeOK
<1>6. (\E frames : Notify(r, frames)) \/ UNCHANGED <<delivered, incoming>>
  BY <1>1 DEF ReceiveConnect, ReceiveConnack, ReceiveForApplication, ReceivePublish,
              ReceiveAck, ReceivePubrel, ReceivePing, recvVars
<1>7. delivered'[Other(r)] = delivered[Other(r)] /\ incoming'[Other(r)] = incoming[Other(r)]
  BY <1>0, <1>6 DEF Notify, Hand, TypeOK
<1>8. buffer'[Other(r)] = buffer[Other(r)]
  BY <1>0, <1>1 DEF TypeOK
<1>9. \A frames \in Seq(FrameType) : Writes(r, frames) => Carries(Other(r), ToSet(frames))
  BY <1>8, WireWritten
<1>10. UNCHANGED net => Carries(Other(r), {})
  BY <1>8, WireKept DEF Wire
<1> QED
  BY <1>1, <1>4, <1>5, <1>7, <1>9, <1>10 DEF f, Received

(* The cases that concern no publication.                                   *)
LEMMA HandlesOther ==
    ASSUME TypeOK, NEW r \in Peers, HandleReceivedFrame(r), NEW f, f = Head(buffer[r]),
           \/ ReceiveConnect(r, f) \/ ReceiveConnack(r, f) \/ ReceiveForApplication(r, f)
           \/ ReceivePing(r, f)
    PROVE  Idle(r) /\ Idle(Other(r))
<1>1. /\ f \in FrameType /\ Carries(r, {})
      /\ UNCHANGED <<published, requested, abandoned>>
      /\ Received(Other(r))' = Received(Other(r))
      /\ \A frames \in Seq(FrameType) :
           Writes(r, frames) => Carries(Other(r), ToSet(frames))
      /\ UNCHANGED net => Carries(Other(r), {})
  BY HandlingWay
<1>2. UNCHANGED <<outgoing, inbound>>
  BY DEF ReceiveConnect, ReceiveConnack, ReceiveForApplication, ReceivePing
<1>3. SameReceived(r)
  <2>1. CASE Notify(r, <<f>>) /\ f.type # "PUBLISH"
    <3>1. <<f>> \in Seq(FrameType) /\ ToSet(<<f>>) = {f}
      BY <1>1, SingleEntry
    <3>2. Gains(r, <<f>>)
      BY <2>1, <3>1, NotifyGains
    <3> QED
      BY <2>1, <3>1, <3>2, GainsOthers
  <2>2. CASE UNCHANGED <<delivered, incoming>>
    BY <2>2, ReceivedKept DEF Received
  <2> QED
    BY <2>1, <2>2
    DEF ReceiveConnect, ReceiveConnack, ReceiveForApplication, ReceivePing, recvVars
<1>4. SameReceived(Other(r))
  BY <1>1, ReceivedKept
<1>5. Neutral(Other(r))
  <2>1. CASE UNCHANGED net
    BY <1>1, <2>1 DEF Neutral
  <2>2. CASE Writes(r, <<Frame("PINGRESP", NoId, 0)>>)
    <3>1. Frame("PINGRESP", NoId, 0) \in FrameType /\ Frame("PINGRESP", NoId, 0).type = "PINGRESP"
      BY FrameTyped DEF FrameTypes, Frame
    <3>2. /\ <<Frame("PINGRESP", NoId, 0)>> \in Seq(FrameType)
          /\ ToSet(<<Frame("PINGRESP", NoId, 0)>>) = {Frame("PINGRESP", NoId, 0)}
      BY <3>1, SingleEntry
    <3>3. Carries(Other(r), {Frame("PINGRESP", NoId, 0)})
      BY <1>1, <2>2, <3>2
    <3> QED
      BY <3>1, <3>3 DEF Neutral, Acks, Waiters, AnswersRequest
  <2> QED
    BY <2>1, <2>2 DEF ReceiveConnect, ReceiveConnack, ReceiveForApplication, ReceivePing
<1>6. Neutral(r)
  BY <1>1 DEF Neutral
<1>7. \A q \in Peers : SameReceived(q) /\ Neutral(q)
  BY <1>3, <1>4, <1>5, <1>6, OtherPeer
<1> QED
  BY <1>1, <1>2, <1>7, NeutralIdle, OtherPeer

(* A PUBLISH concerns the publications of the other side.                   *)
LEMMA HandlesPublish ==
    ASSUME TypeOK, NEW r \in Peers, HandleReceivedFrame(r), NEW f, f = Head(buffer[r]),
           ReceivePublish(r, f)
    PROVE  Idle(r) /\ TakesPublish(Other(r))
<1>0. Other(r) \in Peers /\ Other(r) # r /\ Other(Other(r)) = r
  BY OtherPeer
<1>1. /\ f \in FrameType /\ f \in OnWire(r) /\ Carries(r, {})
      /\ \A y \in OnWire(r)' : Ahead(r, f, y)
      /\ UNCHANGED <<published, requested, abandoned>>
      /\ Received(Other(r))' = Received(Other(r))
      /\ inbound'[Other(r)] = inbound[Other(r)]
      /\ \A frames \in Seq(FrameType) :
           Writes(r, frames) => Carries(Other(r), ToSet(frames))
      /\ UNCHANGED net => Carries(Other(r), {})
  BY HandlingWay
<1>2. f.type = "PUBLISH" /\ UNCHANGED outgoing
  BY DEF ReceivePublish
<1>3. SenderSame(r) /\ SenderSame(Other(r)) /\ ReceiverSame(Other(r))
  BY <1>1, <1>2, ReceivedKept DEF SenderSame, ReceiverSame, Published, Outgoing, Abandoned
<1>4. \A t \in FrameTypes :
        Writes(r, <<Frame(t, f.id, 0)>>) => Carries(Other(r), {Frame(t, f.id, 0)})
  <2> SUFFICES ASSUME NEW t \in FrameTypes, Writes(r, <<Frame(t, f.id, 0)>>)
               PROVE  Carries(Other(r), {Frame(t, f.id, 0)})
    OBVIOUS
  <2>1. Frame(t, f.id, 0) \in FrameType
    BY <1>1, AnswerTyped
  <2>2. <<Frame(t, f.id, 0)>> \in Seq(FrameType) /\ ToSet(<<Frame(t, f.id, 0)>>) = {Frame(t, f.id, 0)}
    BY <2>1, SingleEntry
  <2> QED
    BY <1>1, <2>2
<1>5. \/ /\ f.arg = 2
         /\ inbound'[r] = ReplacingCopies(inbound[r], f)
         /\ SameReceived(r)
         /\ Carries(Other(r), {Frame("PUBREC", f.id, 0)})
      \/ /\ f.arg # 2
         /\ inbound'[r] = inbound[r]
         /\ Gains(r, <<f>>)
         /\ Carries(Other(r), Puback(f))
  <2>1. CASE f.arg = 2
    <3>1. /\ inbound' = [inbound EXCEPT ![r] = ReplacingCopies(@, f)]
          /\ Writes(r, <<Frame("PUBREC", f.id, 0)>>)
          /\ UNCHANGED recvVars
      BY <2>1 DEF ReceivePublish
    <3>2. inbound'[r] = ReplacingCopies(inbound[r], f)
      BY <3>1 DEF TypeOK
    <3>3. Received(r)' = Received(r)
      BY <3>1 DEF Received, recvVars
    <3>4. Carries(Other(r), {Frame("PUBREC", f.id, 0)})
      BY <1>4, <3>1 DEF FrameTypes
    <3> QED
      BY <2>1, <3>2, <3>3, <3>4, ReceivedKept
  <2>2. CASE f.arg # 2
    <3>1. /\ IF f.arg = 1 THEN Writes(r, <<Frame("PUBACK", f.id, 0)>>) ELSE UNCHANGED net
          /\ Notify(r, <<f>>) /\ UNCHANGED inbound
      BY <2>2 DEF ReceivePublish
    <3>2. <<f>> \in Seq(FrameType)
      BY <1>1
    <3>3. Gains(r, <<f>>)
      BY <3>1, <3>2, NotifyGains
    <3>4. Carries(Other(r), Puback(f))
      BY <1>1, <1>4, <3>1 DEF FrameTypes, Puback
    <3> QED
      BY <2>2, <3>1, <3>3, <3>4
  <2> QED
    BY <2>1, <2>2
<1>6. TakesPublish(Other(r))
  BY <1>0, <1>1, <1>2, <1>3, <1>5 DEF TakesPublish
<1>7. Idle(r)
  <2>1. \E F : Carries(Other(r), F) /\ \A x \in F : x.type \notin Waiters
    <3>1. \A t \in FrameTypes : Frame(t, f.id, 0).type = t
      BY <1>1, AnswerTyped
    <3>2. /\ Frame("PUBREC", f.id, 0).type = "PUBREC"
          /\ Frame("PUBACK", f.id, 0).type = "PUBACK"
      BY <3>1 DEF FrameTypes
    <3>3. \/ Carries(Other(r), {Frame("PUBREC", f.id, 0)})
          \/ Carries(Other(r), {Frame("PUBACK", f.id, 0)})
          \/ Carries(Other(r), {})
      BY <1>5 DEF Puback
    <3> QED
      BY <3>2, <3>3 DEF Waiters
  <2>2. NoNewAck(r)
    BY <1>1 DEF NoNewAck
  <2> QED
    BY <1>3, <2>1, <2>2 DEF Idle
<1> QED
  BY <1>6, <1>7

(* A PUBREL concerns the publications of the other side.                    *)
LEMMA HandlesPubrel ==
    ASSUME TypeOK, NEW r \in Peers, HandleReceivedFrame(r), NEW f, f = Head(buffer[r]),
           ReceivePubrel(r, f)
    PROVE  Idle(r) /\ TakesPubrel(Other(r))
<1> DEFINE waiting == Awaits(r, f.id)
           pubcomp == Frame("PUBCOMP", f.id, 0)
<1>0. Other(r) \in Peers /\ Other(r) # r /\ Other(Other(r)) = r
  BY OtherPeer
<1>1. /\ f \in FrameType /\ f \in OnWire(r) /\ Carries(r, {})
      /\ \A y \in OnWire(r)' : Ahead(r, f, y)
      /\ UNCHANGED <<published, requested, abandoned>>
      /\ Received(Other(r))' = Received(Other(r))
      /\ inbound'[Other(r)] = inbound[Other(r)]
      /\ \A frames \in Seq(FrameType) :
           Writes(r, frames) => Carries(Other(r), ToSet(frames))
  BY HandlingWay
<1>2. /\ f.type = "PUBREL" /\ UNCHANGED outgoing
      /\ Writes(r, <<pubcomp>>)
      /\ inbound' = [inbound EXCEPT ![r] = Without(@, waiting)]
      /\ Notify(r, Only(inbound[r], waiting))
  BY DEF ReceivePubrel, Awaits
<1>3. SenderSame(r) /\ SenderSame(Other(r)) /\ ReceiverSame(Other(r))
  BY <1>1, <1>2, ReceivedKept DEF SenderSame, ReceiverSame, Published, Outgoing, Abandoned
<1>4. pubcomp \in FrameType /\ pubcomp.type = "PUBCOMP"
  BY <1>1, AnswerTyped DEF FrameTypes
<1>5. Carries(Other(r), {pubcomp})
  <2>1. <<pubcomp>> \in Seq(FrameType) /\ ToSet(<<pubcomp>>) = {pubcomp}
    BY <1>4, SingleEntry
  <2> QED
    BY <1>1, <1>2, <2>1
<1> HIDE DEF waiting
<1>6. Gains(r, Only(inbound[r], waiting))
  <2>1. inbound[r] \in Seq(FrameType)
    BY DEF TypeOK
  <2>2. Only(inbound[r], waiting) \in Seq(FrameType)
    BY <2>1, WithoutType DEF Only
  <2> QED
    BY <1>2, <2>2, NotifyGains
<1>7. inbound'[r] = Without(inbound[r], waiting)
  BY <1>2 DEF TypeOK
<1>8. TakesPubrel(Other(r))
  BY <1>0, <1>1, <1>2, <1>3, <1>5, <1>6, <1>7 DEF TakesPubrel, waiting
<1>9. Idle(r)
  <2>1. \E F : Carries(Other(r), F) /\ \A x \in F : x.type \notin Waiters
    BY <1>4, <1>5 DEF Waiters
  <2>2. NoNewAck(r)
    BY <1>1 DEF NoNewAck
  <2> QED
    BY <1>3, <2>1, <2>2 DEF Idle
<1> QED
  BY <1>8, <1>9

(* An acknowledgement concerns the publications of the stream it reaches.   *)
LEMMA HandlesAck ==
    ASSUME TypeOK, NEW r \in Peers, HandleReceivedFrame(r), NEW f, f = Head(buffer[r]),
           ReceiveAck(r, f)
    PROVE  TakesAck(r) /\ Idle(Other(r))
<1> DEFINE t == RequestType(f.type)
           rest == Without(outgoing[r], Matches(outgoing[r], t, f.id))
           pubrel == Frame("PUBREL", f.id, 0)
           kept == {x \in Outgoing(r) : ~(x.type = t /\ x.id = f.id)}
<1>0. Other(r) \in Peers /\ Other(r) # r /\ Other(Other(r)) = r
  BY OtherPeer
<1>1. /\ f \in FrameType /\ f \in OnWire(r) /\ Carries(r, {})
      /\ \A y \in OnWire(r)' : Ahead(r, f, y)
      /\ UNCHANGED <<published, requested, abandoned>>
      /\ Received(Other(r))' = Received(Other(r))
      /\ outgoing'[Other(r)] = outgoing[Other(r)]
      /\ inbound'[Other(r)] = inbound[Other(r)]
      /\ \A frames \in Seq(FrameType) :
           Writes(r, frames) => Carries(Other(r), ToSet(frames))
      /\ UNCHANGED net => Carries(Other(r), {})
  BY HandlingWay
<1>2. /\ f.type \in Acks \cup {"SUBACK", "UNSUBACK"}
      /\ \/ /\ f.type = "PUBREC" /\ Writes(r, <<pubrel>>)
            /\ outgoing' = [outgoing EXCEPT ![r] = InsertHead(Item(pubrel, 1), rest)]
         \/ /\ f.type # "PUBREC" /\ UNCHANGED net
            /\ outgoing' = [outgoing EXCEPT ![r] = rest]
      /\ \/ f.type \in {"SUBACK", "UNSUBACK"} /\ Notify(r, <<f>>)
         \/ f.type \in Acks /\ UNCHANGED recvVars
      /\ UNCHANGED inbound
  BY DEF ReceiveAck, Acks
<1>3. SameReceived(r) /\ (f.type \notin Acks => f \in Got(r)')
  <2>1. CASE f.type \in {"SUBACK", "UNSUBACK"} /\ Notify(r, <<f>>)
    <3>1. <<f>> \in Seq(FrameType) /\ ToSet(<<f>>) = {f}
      BY <1>1, SingleEntry
    <3>2. Gains(r, <<f>>)
      BY <2>1, <3>1, NotifyGains
    <3>3. f \in Got(r)'
      BY <3>1, <3>2 DEF Gains
    <3> QED
      BY <2>1, <3>1, <3>2, <3>3, GainsOthers
  <2>2. CASE f.type \in Acks /\ UNCHANGED recvVars
    BY <2>2, ReceivedKept DEF Received, recvVars
  <2> QED
    BY <1>2, <2>1, <2>2
<1>4. ReceiverSame(r) /\ ReceiverSame(Other(r))
  BY <1>1, <1>2, <1>3, ReceivedKept DEF ReceiverSame
<1>5. /\ outgoing[r] \in Seq(ItemType) /\ Outgoing(r) = FramesIn(outgoing[r])
      /\ Outgoing(r)' = FramesIn(outgoing'[r])
  BY DEF TypeOK, Outgoing, FramesIn
<1>6. rest \in Seq(ItemType) /\ FramesIn(rest) = kept
  BY <1>5, AckedFrames
<1>7. pubrel \in FrameType /\ pubrel.type = "PUBREL"
  BY <1>1, AnswerTyped DEF FrameTypes
<1> HIDE DEF rest, pubrel
<1>8. \/ /\ f.type = "PUBREC"
         /\ Outgoing(r)' = kept \cup {pubrel} /\ Carries(Other(r), {pubrel})
      \/ /\ f.type # "PUBREC"
         /\ Outgoing(r)' = kept /\ Carries(Other(r), {})
  <2>1. CASE f.type = "PUBREC"
    <3>1. outgoing'[r] = <<Item(pubrel, 1)>> \o rest
      BY <1>2, <2>1 DEF InsertHead, TypeOK
    <3>2. Item(pubrel, 1) \in ItemType /\ FrameOf(Item(pubrel, 1)) = pubrel
      BY <1>7, FrameTyped, FrameOfItem
    <3>3. <<Item(pubrel, 1)>> \in Seq(ItemType)
      BY <3>2
    <3>4. ToSet(<<Item(pubrel, 1)>> \o rest) = {Item(pubrel, 1)} \cup ToSet(rest)
      <4>1. ToSet(<<Item(pubrel, 1)>> \o rest) = ToSet(<<Item(pubrel, 1)>>) \cup ToSet(rest)
        BY <1>6, <3>3, ConcatEntries
      <4> QED
        BY <4>1, SingleEntry
    <3>5. FramesIn(outgoing'[r]) = FramesIn(rest) \cup {pubrel}
      BY <3>1, <3>2, <3>4 DEF FramesIn
    <3>6. <<pubrel>> \in Seq(FrameType) /\ ToSet(<<pubrel>>) = {pubrel}
      BY <1>7, SingleEntry
    <3>7. Writes(r, <<pubrel>>)
      BY <1>2, <2>1
    <3>8. Carries(Other(r), {pubrel})
      BY <1>1, <3>6, <3>7
    <3> QED
      BY <1>5, <1>6, <2>1, <3>5, <3>8
  <2>2. CASE f.type # "PUBREC"
    <3>1. outgoing'[r] = rest /\ UNCHANGED net
      BY <1>2, <2>2 DEF TypeOK
    <3> QED
      BY <1>1, <1>5, <1>6, <2>2, <3>1
  <2> QED
    BY <2>1, <2>2
<1>9. TakesAck(r)
  <2>1. Published(r)' = Published(r) /\ Abandoned(r)' = Abandoned(r)
    BY <1>1 DEF Published, Abandoned
  <2> QED
    BY <1>1, <1>2, <1>3, <1>4, <1>8, <2>1 DEF TakesAck, pubrel
<1>10. Idle(Other(r))
  <2>1. NoNewAck(Other(r))
    <3>1. Carries(Other(r), {pubrel}) \/ Carries(Other(r), {})
      BY <1>8
    <3> QED
      BY <1>7, <3>1 DEF NoNewAck, Acks, AnswersRequest
  <2>2. \E F : Carries(r, F) /\ \A x \in F : x.type \notin Waiters
    BY <1>1
  <2>3. /\ published'[Other(r)] = published[Other(r)]
        /\ abandoned'[Other(r)] = abandoned[Other(r)]
    BY <1>1
  <2> QED
    BY <1>1, <1>4, <2>1, <2>2, <2>3, OtherSideIdle
<1> QED
  BY <1>9, <1>10

\* What a step of the two streams is for the publications of p.
Kind(p) ==
    \/ Idle(p) \/ Submits(p) \/ Resends(p)
    \/ TakesPublish(p) \/ TakesPubrel(p) \/ TakesAck(p)

(* Every step of the two streams is one of the steps above for the          *)
(* publications of the one and for those of the other.                      *)
LEMMA StepKinds ==
    ASSUME TypeOK, QueuesRequests, [Next]_vars
    PROVE  \A p \in Peers : Kind(p)
<1>1. ASSUME NEW r \in Peers, Kind(r), Kind(Other(r))
      PROVE  \A p \in Peers : Kind(p)
  BY <1>1, OtherPeer
<1>2. CASE \/ UNCHANGED vars \/ Tick
           \/ \E r \in Peers : \/ Connect(r) \/ Answer(r) \/ Disconnect(r) \/ ByteCall(r)
                               \/ Read(r) \/ TakeFrame(r) \/ Lose(r) \/ Crash(r)
  BY <1>2, OtherSteps DEF Kind
<1>3. ASSUME NEW r \in Peers, Publish(r) \/ Request(r)
      PROVE  \A p \in Peers : Kind(p)
  BY <1>1, <1>3, SubmitSteps DEF Kind
<1>4. ASSUME NEW r \in Peers, DoTime(r)
      PROVE  \A p \in Peers : Kind(p)
  BY <1>1, <1>4, TimeSteps DEF Kind
<1>5. ASSUME NEW r \in Peers, HandleReceivedFrame(r)
      PROVE  \A p \in Peers : Kind(p)
  <2> DEFINE f == Head(buffer[r])
  <2>1. \/ ReceiveConnect(r, f) \/ ReceiveConnack(r, f) \/ ReceiveForApplication(r, f)
        \/ ReceivePublish(r, f) \/ ReceiveAck(r, f) \/ ReceivePubrel(r, f)
        \/ ReceivePing(r, f)
    BY <1>5 DEF HandleReceivedFrame
  <2> HIDE DEF f
  <2>2. f = Head(buffer[r]) /\ Other(Other(r)) = r
    BY OtherPeer DEF f
  <2>3. CASE \/ ReceiveConnect(r, f) \/ ReceiveConnack(r, f) \/ ReceiveForApplication(r, f)
             \/ ReceivePing(r, f)
    BY <1>1, <1>5, <2>2, <2>3, HandlesOther DEF Kind
  <2>4. CASE ReceivePublish(r, f)
    BY <1>1, <1>5, <2>2, <2>4, HandlesPublish DEF Kind
  <2>5. CASE ReceivePubrel(r, f)
    BY <1>1, <1>5, <2>2, <2>5, HandlesPubrel DEF Kind
  <2>6. CASE ReceiveAck(r, f)
    BY <1>1, <1>5, <2>2, <2>6, HandlesAck DEF Kind
  <2> QED
    BY <2>1, <2>3, <2>4, <2>5, <2>6
<1> QED
  BY <1>2, <1>3, <1>4, <1>5 DEF Next

-----------------------------------------------------------------------------
(* The messages of QoS 2 that wait for their PUBREL.                       *)

(* A message that comes again replaces the copy that waits.                 *)
LEMMA ReplacingWaits ==
    ASSUME TypeOK, NEW q \in Peers, NEW f \in FrameType,
           inbound'[q] = ReplacingCopies(inbound[q], f)
    PROVE  /\ Waiting(q)' = {g \in Waiting(q) : ~(g.type = "PUBLISH" /\ g.id = f.id)} \cup {f}
           /\ \A x, y : Before(inbound'[q], x, y) =>
                \/ Before(inbound[q], x, y)
                \/ x \in Waiting(q) /\ ~(x.type = "PUBLISH" /\ x.id = f.id) /\ y = f
<1> DEFINE b == inbound[q]
           D == Matches(b, "PUBLISH", f.id)
           w == Without(b, D)
<1>1. b \in Seq(FrameType) /\ w \in Seq(FrameType) /\ <<f>> \in Seq(FrameType)
  BY ReceivedTyped, WithoutType
<1>2. /\ ToSet(w) = {b[k] : k \in DOMAIN b \ D}
      /\ \A x, y : Before(w, x, y) => \E i, j \in DOMAIN b \ D : i < j /\ b[i] = x /\ b[j] = y
  BY <1>1, WithoutOrder
<1>3. \A k \in DOMAIN b : k \in D <=> b[k].type = "PUBLISH" /\ b[k].id = f.id
  BY DEF Matches
<1>4. inbound'[q] = w \o <<f>>
  BY <1>1 DEF ReplacingCopies
<1> HIDE DEF D, w
<1>5. ToSet(w) = {g \in ToSet(b) : ~(g.type = "PUBLISH" /\ g.id = f.id)}
  BY <1>2, <1>3 DEF ToSet
<1>6. \A x, y : Before(w, x, y) => Before(b, x, y)
  BY <1>2 DEF Before
<1>7. /\ ToSet(w \o <<f>>) = ToSet(w) \cup ToSet(<<f>>)
      /\ \A x, y : Before(w \o <<f>>, x, y) <=>
            Before(w, x, y) \/ Before(<<f>>, x, y) \/ (x \in ToSet(w) /\ y \in ToSet(<<f>>))
  BY <1>1, ConcatEntries
<1>8. ToSet(<<f>>) = {f} /\ \A x, y : ~Before(<<f>>, x, y)
  BY SingleEntry
<1> QED
  BY <1>4, <1>5, <1>6, <1>7, <1>8 DEF Waiting

(* A PUBREL takes the messages with its packet id.                          *)
LEMMA ReleasingWaits ==
    ASSUME TypeOK, NEW q \in Peers, NEW id,
           inbound'[q] = Without(inbound[q], Awaits(q, id)),
           Gains(q, Only(inbound[q], Awaits(q, id)))
    PROVE  /\ Waiting(q)' = {g \in Waiting(q) : g.id # id}
           /\ \A x, y : Before(inbound'[q], x, y) => Before(inbound[q], x, y)
           /\ Got(q)' = Got(q) \cup {g \in Waiting(q) : g.id = id}
           /\ \E taken \in Seq(FrameType) :
                /\ ToSet(taken) = {g \in Waiting(q) : g.id = id}
                /\ \A x, y : Before(taken, x, y) => Before(inbound[q], x, y)
                /\ Gains(q, taken)
<1> DEFINE b == inbound[q]
           D == Awaits(q, id)
           w == Without(b, D)
           o == Only(b, D)
<1>1. b \in Seq(FrameType)
  BY ReceivedTyped
<1>2. /\ ToSet(w) = {b[k] : k \in DOMAIN b \ D}
      /\ \A x, y : Before(w, x, y) => \E n, j \in DOMAIN b \ D : n < j /\ b[n] = x /\ b[j] = y
  BY <1>1, WithoutOrder
<1>3. /\ o \in Seq(FrameType)
      /\ ToSet(o) = {b[k] : k \in DOMAIN b \cap D}
      /\ \A x, y : Before(o, x, y) => Before(b, x, y)
  BY <1>1, OnlyOrder
<1>4. \A k \in DOMAIN b : k \in D <=> b[k].id = id
  BY DEF Awaits
<1>5. inbound'[q] = w /\ Gains(q, o)
  OBVIOUS
<1> HIDE DEF w, o, b, D
<1>6. ToSet(w) = {g \in ToSet(b) : g.id # id}
  <2>1. ToSet(b) = {b[k] : k \in DOMAIN b}
    BY DEF ToSet
  <2>2. \A g \in ToSet(b) : g.id # id => g \in ToSet(w)
    BY <1>2, <1>4, <2>1
  <2>3. \A g \in ToSet(w) : g \in ToSet(b) /\ g.id # id
    BY <1>2, <1>4, <2>1
  <2> QED
    BY <2>2, <2>3
<1>7. ToSet(o) = {g \in ToSet(b) : g.id = id}
  BY <1>3, <1>4 DEF ToSet
<1>8. \A x, y : Before(w, x, y) => Before(b, x, y)
  BY <1>2 DEF Before
<1> QED
  BY <1>3, <1>5, <1>6, <1>7, <1>8 DEF Waiting, Gains, b

-----------------------------------------------------------------------------
(* The invariant, for the publications of p.                               *)

\* A packet id stands for one publication of p.
Identified(p) ==
    /\ \A f \in Published(p) : f.type = "PUBLISH" /\ f.id \in PacketIds /\ f.arg \in QosLevels
    /\ \A f, g \in Published(p) : f.id = g.id => f = g

\* Only what p has published is queued, written or received; only messages of
\* QoS 2 wait for a PUBREL.
Genuine(p) ==
    /\ \A f \in Outgoing(p) \cup Abandoned(p) \cup OnWire(Other(p)) \cup Got(Other(p)) :
         f.type = "PUBLISH" => f \in Published(p)
    /\ \A f \in Waiting(Other(p)) : f \in Published(p) /\ f.arg = 2

\* The receiver has this message, even if its application does not.
Holds(q, f) == f \in Waiting(q) \/ f \in Got(q)

\* A PUBREL is only sent for a message of QoS 2 that the receiver has.
ReleasesHeld(p, r) ==
    r.type = "PUBREL" =>
        \E f \in Published(p) : f.arg = 2 /\ r = Pubrel(f) /\ Holds(Other(p), f)

Released(p) ==
    \A r \in Outgoing(p) \cup Abandoned(p) \cup OnWire(Other(p)) : ReleasesHeld(p, r)

\* A message of this QoS was published with the packet id of the frame a.
Answers(p, a, qos, f) == f \in Published(p) /\ f.id = a.id /\ f.arg = qos

\* An acknowledgement on its way is for a message the receiver has; a PUBACK
\* and a PUBCOMP for one its application has.
AcknowledgesHeld(p, a) ==
    /\ a.type = "PUBACK" => \E f : Answers(p, a, 1, f) /\ f \in Got(Other(p))
    /\ a.type = "PUBREC" => \E f : Answers(p, a, 2, f) /\ Holds(Other(p), f)
    /\ a.type = "PUBCOMP" => \E f : Answers(p, a, 2, f) /\ f \in Got(Other(p))

Acknowledged(p) == \A a \in OnWire(p) : AcknowledgesHeld(p, a)

\* NoSilentLoss for the publications of p.
Accounted(p) ==
    \A f \in Published(p) :
        f.arg > 0 =>
            \/ f \in Outgoing(p)
            \/ Pubrel(f) \in Outgoing(p) /\ f \in Waiting(Other(p))
            \/ f \in Got(Other(p))
            \/ f \in Abandoned(p) \/ Pubrel(f) \in Abandoned(p)

SafeInv(p) ==
    /\ Identified(p) /\ Genuine(p) /\ Released(p) /\ Acknowledged(p) /\ Accounted(p)

(* No step forgets a publication, and the receiver keeps what it has.       *)
LEMMA KindKeeps ==
    ASSUME TypeOK, NEW p \in Peers, SafeInv(p), Kind(p)
    PROVE  /\ Published(p) \subseteq Published(p)'
           /\ \A f \in Published(p) : f \in Got(Other(p)) => f \in Got(Other(p))'
           /\ \A f \in Published(p) : Holds(Other(p), f) => Holds(Other(p), f)'
<1> DEFINE q == Other(p)
<1>0. q \in Peers /\ Other(q) = p
  BY OtherPeer
<1>1. Published(p) \subseteq Published(p)'
  BY DEF Kind, Idle, Submits, Resends, TakesPublish, TakesPubrel, TakesAck, SenderSame
<1>2. \A f \in Published(p) : f \in FrameType /\ f.type = "PUBLISH"
  <2>1. Published(p) \subseteq FrameType
    BY QueueTyped DEF TypeOK, Published
  <2> QED
    BY <2>1 DEF SafeInv, Identified
<1> HIDE DEF q
<1>3. CASE ReceiverSame(q)
  <2>1. Waiting(q)' = Waiting(q)
    BY <1>3 DEF ReceiverSame, Waiting
  <2> QED
    BY <1>1, <1>2, <1>3, <2>1 DEF ReceiverSame, SameReceived, Holds, q
<1>4. CASE TakesPublish(p)
  <2>1. PICK f \in OnWire(q) :
          /\ f.type = "PUBLISH"
          /\ \/ /\ f.arg = 2
                /\ inbound'[q] = ReplacingCopies(inbound[q], f)
                /\ SameReceived(q)
             \/ inbound'[q] = inbound[q] /\ Gains(q, <<f>>)
    BY <1>4 DEF TakesPublish, q
  <2>2. f \in FrameType /\ f \in Published(p)
    BY <1>0, <2>1, WireTyped DEF SafeInv, Genuine, q
  <2>3. CASE /\ f.arg = 2
             /\ inbound'[q] = ReplacingCopies(inbound[q], f)
             /\ SameReceived(q)
    <3>1. Waiting(q)' = {g \in Waiting(q) : ~(g.type = "PUBLISH" /\ g.id = f.id)} \cup {f}
      BY <1>0, <2>2, <2>3, ReplacingWaits
    <3>2. \A g \in Published(p) : g.id = f.id => g = f
      BY <2>2 DEF SafeInv, Identified
    <3>3. \A g \in Published(p) : g \in Waiting(q) => g \in Waiting(q)'
      BY <3>1, <3>2
    <3> QED
      BY <1>1, <1>2, <2>3, <3>3 DEF SameReceived, Holds, q
  <2>4. CASE inbound'[q] = inbound[q] /\ Gains(q, <<f>>)
    BY <1>1, <2>4 DEF Gains, Holds, Waiting, q
  <2> QED
    BY <2>1, <2>3, <2>4
<1>5. CASE TakesPubrel(p)
  <2>1. PICK r \in OnWire(q) :
          /\ inbound'[q] = Without(inbound[q], Awaits(q, r.id))
          /\ Gains(q, Only(inbound[q], Awaits(q, r.id)))
    BY <1>5 DEF TakesPubrel, q
  <2>2. /\ Waiting(q)' = {g \in Waiting(q) : g.id # r.id}
        /\ Got(q)' = Got(q) \cup {g \in Waiting(q) : g.id = r.id}
    BY <1>0, <2>1, ReleasingWaits
  <2> QED
    BY <1>1, <2>2 DEF Holds, q
<1> QED
  BY <1>3, <1>4, <1>5 DEF Kind, Idle, Submits, Resends, TakesAck, q

(* So an acknowledgement and a PUBREL stay as good as they were.            *)
LEMMA KindKeepsGood ==
    ASSUME TypeOK, NEW p \in Peers, SafeInv(p), Kind(p)
    PROVE  /\ \A a : AcknowledgesHeld(p, a) => AcknowledgesHeld(p, a)'
           /\ \A r : ReleasesHeld(p, r) => ReleasesHeld(p, r)'
<1>1. /\ Published(p) \subseteq Published(p)'
      /\ \A f \in Published(p) : f \in Got(Other(p)) => f \in Got(Other(p))'
      /\ \A f \in Published(p) : Holds(Other(p), f) => Holds(Other(p), f)'
  BY KindKeeps
<1>2. \A r : ReleasesHeld(p, r) => ReleasesHeld(p, r)'
  BY <1>1 DEF ReleasesHeld
<1>3. \A a : AcknowledgesHeld(p, a) => AcknowledgesHeld(p, a)'
  BY <1>1 DEF AcknowledgesHeld, Answers
<1> QED
  BY <1>2, <1>3

(* The invariant but for its last part, when the way to the sender gains    *)
(* the frames B, the way to the receiver the frames F, and what waits or    *)
(* is received are messages that were there or sent.                        *)
LEMMA FramesKeepSafe ==
    ASSUME TypeOK, NEW p \in Peers, SafeInv(p), Kind(p), NEW B, NEW F,
           OnWire(p)' \subseteq OnWire(p) \cup B,
           OnWire(Other(p))' \subseteq OnWire(Other(p)) \cup F,
           Outgoing(p)' \cup Abandoned(p)' \subseteq Outgoing(p) \cup Abandoned(p) \cup F,
           \A x \in B : AcknowledgesHeld(p, x)',
           \A x \in F : ReleasesHeld(p, x)' /\ (x.type = "PUBLISH" => x \in Published(p)'),
           \A g \in Got(Other(p))' : g.type = "PUBLISH" => g \in Got(Other(p)) \cup Published(p),
           \A g \in Waiting(Other(p))' : \/ g \in Waiting(Other(p))
                                         \/ g \in Published(p) /\ g.arg = 2,
           Identified(p)', Accounted(p)'
    PROVE  SafeInv(p)'
<1>1. /\ Published(p) \subseteq Published(p)'
      /\ \A a : AcknowledgesHeld(p, a) => AcknowledgesHeld(p, a)'
      /\ \A r : ReleasesHeld(p, r) => ReleasesHeld(p, r)'
  BY KindKeeps, KindKeepsGood
<1>2. Acknowledged(p)'
  BY <1>1 DEF SafeInv, Acknowledged
<1>3. Released(p)'
  BY <1>1 DEF SafeInv, Released
<1>4. Genuine(p)'
  BY <1>1 DEF SafeInv, Genuine
<1> QED
  BY <1>2, <1>3, <1>4 DEF SafeInv

(* Steps that are not about the publications of p.                          *)
LEMMA IdleSafe ==
    ASSUME TypeOK, NEW p \in Peers, SafeInv(p), Idle(p)
    PROVE  SafeInv(p)'
<1> DEFINE q == Other(p)
<1> HIDE DEF q
<1>0. Kind(p) /\ SenderSame(p) /\ ReceiverSame(q)
  BY DEF Kind, Idle, q
<1>1. PICK B : OnWire(p)' \subseteq OnWire(p) \cup B /\ \A x \in B : x.type \notin Acks
  BY DEF Idle, NoNewAck, Carries
<1>2. PICK F : /\ OnWire(q)' \subseteq OnWire(q) \cup F
               /\ \A x \in F : x.type \notin Waiters
  BY DEF Idle, Carries, q
<1>3. Waiting(q)' = Waiting(q) /\ \A g : g.type = "PUBLISH" => (g \in Got(q)' <=> g \in Got(q))
  BY <1>0 DEF ReceiverSame, Waiting, SameReceived
<1>4. \A x \in B : AcknowledgesHeld(p, x)'
  BY <1>1 DEF AcknowledgesHeld, Acks
<1>5. \A x \in F : ReleasesHeld(p, x)' /\ (x.type = "PUBLISH" => x \in Published(p)')
  BY <1>2 DEF ReleasesHeld, Waiters
<1>6. Identified(p)'
  BY <1>0 DEF SafeInv, Identified, SenderSame
<1>7. Accounted(p)'
  <2>1. \A f \in Published(p) : f.type = "PUBLISH"
    BY DEF SafeInv, Identified
  <2> QED
    BY <1>0, <1>3, <2>1 DEF SafeInv, Accounted, SenderSame, q
<1> QED
  BY <1>0, <1>1, <1>2, <1>3, <1>4, <1>5, <1>6, <1>7, FramesKeepSafe DEF SenderSame, q

(* Publishing and requesting.                                               *)
LEMMA SubmitsSafe ==
    ASSUME TypeOK, NEW p \in Peers, SafeInv(p), Submits(p)
    PROVE  SafeInv(p)'
<1> DEFINE q == Other(p)
<1> HIDE DEF q
<1>0. Kind(p) /\ ReceiverSame(q) /\ Abandoned(p)' = Abandoned(p)
  BY DEF Kind, Submits, q
<1>1. PICK B : OnWire(p)' \subseteq OnWire(p) \cup B /\ \A x \in B : x.type \notin Acks
  BY DEF Submits, NoNewAck, Carries
<1>2. PICK f \in FrameType :
        /\ \/ /\ f.type = "PUBLISH" /\ f.id \in PacketIds /\ f.arg \in QosLevels
              /\ \A g \in Published(p) : g.id # f.id
              /\ Published(p)' = Published(p) \cup {f}
           \/ /\ f.type \in {"SUBSCRIBE", "UNSUBSCRIBE"}
              /\ Published(p)' = Published(p)
        /\ \/ Outgoing(p)' = Outgoing(p) \cup {f}
           \/ f.type = "PUBLISH" /\ f.arg = 0 /\ Outgoing(p)' = Outgoing(p)
        /\ OnWire(q)' \subseteq OnWire(q) \cup {f}
  BY DEF Submits, Carries, q
<1>3. Waiting(q)' = Waiting(q) /\ \A g : g.type = "PUBLISH" => (g \in Got(q)' <=> g \in Got(q))
  BY <1>0 DEF ReceiverSame, Waiting, SameReceived
<1>4. \A x \in B : AcknowledgesHeld(p, x)'
  BY <1>1 DEF AcknowledgesHeld, Acks
<1>5. \A x \in {f} : ReleasesHeld(p, x)' /\ (x.type = "PUBLISH" => x \in Published(p)')
  BY <1>2 DEF ReleasesHeld
<1>6. Identified(p)'
  BY <1>2 DEF SafeInv, Identified
<1>7. Accounted(p)'
  <2>1. \A g \in Published(p) : g.type = "PUBLISH"
    BY DEF SafeInv, Identified
  <2>2. \A g \in Published(p)' : g \in Published(p) \/ g = f
    BY <1>2
  <2>3. Outgoing(p) \subseteq Outgoing(p)' /\ (f.arg > 0 => f \in Outgoing(p)')
    BY <1>2
  <2> QED
    BY <1>0, <1>3, <2>1, <2>2, <2>3 DEF SafeInv, Accounted, q
<1>8. \A g \in Got(q)' : g.type = "PUBLISH" => g \in Got(q) \cup Published(p)
  BY <1>3
<1>9. Outgoing(p)' \cup Abandoned(p)' \subseteq Outgoing(p) \cup Abandoned(p) \cup {f}
  BY <1>0, <1>2
<1>10. OnWire(q)' \subseteq OnWire(q) \cup {f}
  BY <1>2
<1> QED
  BY <1>0, <1>1, <1>3, <1>4, <1>5, <1>6, <1>7, <1>8, <1>9, <1>10, FramesKeepSafe DEF q

(* Writing a frame of outgoing again, or giving it up.                      *)
LEMMA ResendsSafe ==
    ASSUME TypeOK, NEW p \in Peers, SafeInv(p), Resends(p)
    PROVE  SafeInv(p)'
<1> DEFINE q == Other(p)
           ping == Frame("PINGREQ", NoId, 0)
           F == Outgoing(p)' \cup {ping}
<1> HIDE DEF q
<1>0. Kind(p) /\ ReceiverSame(q) /\ Published(p)' = Published(p)
  BY DEF Kind, Resends, q
<1>1. PICK B : OnWire(p)' \subseteq OnWire(p) \cup B /\ \A x \in B : x.type \notin Acks
  BY DEF Resends, NoNewAck, Carries
<1>2. PICK H : Outgoing(p) = Outgoing(p)' \cup H /\ Abandoned(p)' = Abandoned(p) \cup H
  BY DEF Resends
<1>a. OnWire(q)' \subseteq OnWire(q) \cup F /\ ping.type = "PINGREQ"
  BY DEF Resends, Carries, q, Frame
<1> HIDE DEF ping, F
<1>b. \A x \in F : x = ping \/ x \in Outgoing(p)
  BY <1>2 DEF F
<1>3. Waiting(q)' = Waiting(q) /\ \A g : g.type = "PUBLISH" => (g \in Got(q)' <=> g \in Got(q))
  BY <1>0 DEF ReceiverSame, Waiting, SameReceived
<1>4. \A x \in B : AcknowledgesHeld(p, x)'
  BY <1>1 DEF AcknowledgesHeld, Acks
<1>5. \A x \in F : ReleasesHeld(p, x)' /\ (x.type = "PUBLISH" => x \in Published(p)')
  <2>1. ReleasesHeld(p, ping)'
    BY <1>a DEF ReleasesHeld
  <2>2. \A x \in Outgoing(p) : ReleasesHeld(p, x)'
    BY <1>0, KindKeepsGood DEF SafeInv, Released
  <2>3. \A x \in Outgoing(p) : x.type = "PUBLISH" => x \in Published(p)'
    BY <1>0 DEF SafeInv, Genuine
  <2> QED
    BY <1>a, <1>b, <2>1, <2>2, <2>3
<1>6. Identified(p)'
  BY <1>0 DEF SafeInv, Identified
<1>7. Accounted(p)'
  <2>1. \A g \in Published(p) : g.type = "PUBLISH"
    BY DEF SafeInv, Identified
  <2>2. \A x \in Outgoing(p) : x \in Outgoing(p)' \/ x \in Abandoned(p)'
    BY <1>2
  <2>3. \A x \in Abandoned(p) : x \in Abandoned(p)'
    BY <1>2
  <2> QED
    BY <1>0, <1>3, <2>1, <2>2, <2>3 DEF SafeInv, Accounted, q
<1>8. Outgoing(p)' \cup Abandoned(p)' \subseteq Outgoing(p) \cup Abandoned(p) \cup F
  BY <1>2
<1> QED
  BY <1>0, <1>1, <1>a, <1>3, <1>4, <1>5, <1>6, <1>7, <1>8, FramesKeepSafe DEF q

(* What the sender has accounted for stays so as long as its queue is as it *)
(* was.                                                                     *)
LEMMA AccountedKept ==
    ASSUME TypeOK, NEW p \in Peers, SafeInv(p), Kind(p), SenderSame(p)
    PROVE  Accounted(p)' /\ Identified(p)'
<1>1. /\ \A f \in Published(p) : f \in Got(Other(p)) => f \in Got(Other(p))'
      /\ \A f \in Published(p) : Holds(Other(p), f) => Holds(Other(p), f)'
  BY KindKeeps
<1>2. Identified(p)'
  BY DEF SafeInv, Identified, SenderSame
<1>3. ASSUME NEW f \in Published(p), f.arg > 0
      PROVE  \/ f \in Outgoing(p)
             \/ Pubrel(f) \in Outgoing(p) /\ f \in Waiting(Other(p))'
             \/ f \in Got(Other(p))'
             \/ f \in Abandoned(p) \/ Pubrel(f) \in Abandoned(p)
  BY <1>1, <1>3 DEF SafeInv, Accounted, Holds
<1>4. Accounted(p)'
  BY <1>3 DEF Accounted, SenderSame
<1> QED
  BY <1>2, <1>4

(* The receiver handles a PUBLISH.                                          *)
LEMMA TakesPublishSafe ==
    ASSUME TypeOK, NEW p \in Peers, SafeInv(p), TakesPublish(p)
    PROVE  SafeInv(p)'
<1> DEFINE q == Other(p)
<1> HIDE DEF q
<1> DEFINE none == {}
<1>0. /\ q \in Peers /\ Kind(p) /\ SenderSame(p) /\ Accounted(p)' /\ Identified(p)'
      /\ OnWire(q)' \subseteq OnWire(q) \cup none
      /\ Outgoing(p)' \cup Abandoned(p)' \subseteq Outgoing(p) \cup Abandoned(p) \cup none
  BY AccountedKept, OtherPeer DEF Kind, TakesPublish, Carries, SenderSame, q
<1>1. PICK f \in OnWire(q) :
        /\ f.type = "PUBLISH"
        /\ \/ /\ f.arg = 2
              /\ inbound'[q] = ReplacingCopies(inbound[q], f)
              /\ SameReceived(q)
              /\ Carries(p, {Frame("PUBREC", f.id, 0)})
           \/ /\ f.arg # 2
              /\ inbound'[q] = inbound[q]
              /\ Gains(q, <<f>>)
              /\ Carries(p, Puback(f))
  BY DEF TakesPublish, q
<1>2. f \in FrameType /\ f \in Published(p) /\ f \in Published(p)'
  BY <1>0, <1>1, WireTyped DEF SafeInv, Genuine, SenderSame, q
<1>3. CASE f.arg = 2 /\ inbound'[q] = ReplacingCopies(inbound[q], f) /\ SameReceived(q)
           /\ Carries(p, {Frame("PUBREC", f.id, 0)})
  <2> DEFINE a == Frame("PUBREC", f.id, 0)
             B == {a}
  <2>1. Waiting(q)' = {g \in Waiting(q) : ~(g.type = "PUBLISH" /\ g.id = f.id)} \cup {f}
    BY <1>0, <1>2, <1>3, ReplacingWaits
  <2>2. a.type = "PUBREC" /\ a.id = f.id /\ OnWire(p)' \subseteq OnWire(p) \cup B
    BY <1>3 DEF Frame, Carries
  <2> HIDE DEF a
  <2>3. AcknowledgesHeld(p, a)'
    <3>1. Holds(q, f)'
      BY <2>1 DEF Holds
    <3> QED
      BY <1>2, <1>3, <2>2, <3>1 DEF AcknowledgesHeld, Answers, q
  <2>4. /\ \A g \in Waiting(q)' : \/ g \in Waiting(q)
                                  \/ g \in Published(p) /\ g.arg = 2
        /\ \A g \in Got(q)' : g.type = "PUBLISH" => g \in Got(q) \cup Published(p)
    BY <1>2, <1>3, <2>1 DEF SameReceived
  <2>5. \A x \in B : AcknowledgesHeld(p, x)'
    BY <2>3
  <2>6. \A x \in none : ReleasesHeld(p, x)' /\ (x.type = "PUBLISH" => x \in Published(p)')
    OBVIOUS
  <2> HIDE DEF none, B
  <2> QED
    BY <1>0, <2>2, <2>4, <2>5, <2>6, FramesKeepSafe DEF q
<1>4. CASE /\ f.arg # 2 /\ inbound'[q] = inbound[q] /\ Gains(q, <<f>>)
           /\ Carries(p, Puback(f))
  <2>1. Waiting(q)' = Waiting(q) /\ Got(q)' = Got(q) \cup {f}
    BY <1>4, SingleEntry DEF Gains, Waiting
  <2> DEFINE B == Puback(f)
  <2>2. /\ OnWire(p)' \subseteq OnWire(p) \cup B
        /\ \A x \in B : f.arg = 1 /\ x.type = "PUBACK" /\ x.id = f.id
    BY <1>4 DEF Carries, Frame, Puback
  <2> HIDE DEF B
  <2>3. \A x \in B : AcknowledgesHeld(p, x)'
    BY <1>2, <2>1, <2>2 DEF AcknowledgesHeld, Answers, q
  <2>4. /\ \A g \in Waiting(q)' : \/ g \in Waiting(q)
                                  \/ g \in Published(p) /\ g.arg = 2
        /\ \A g \in Got(q)' : g.type = "PUBLISH" => g \in Got(q) \cup Published(p)
    BY <1>2, <2>1
  <2>5. \A x \in none : ReleasesHeld(p, x)' /\ (x.type = "PUBLISH" => x \in Published(p)')
    OBVIOUS
  <2> HIDE DEF none
  <2> QED
    BY <1>0, <2>2, <2>3, <2>4, <2>5, FramesKeepSafe DEF q
<1> QED
  BY <1>1, <1>3, <1>4

(* The receiver handles a PUBREL.                                           *)
LEMMA TakesPubrelSafe ==
    ASSUME TypeOK, NEW p \in Peers, SafeInv(p), TakesPubrel(p)
    PROVE  SafeInv(p)'
<1> DEFINE q == Other(p)
<1> HIDE DEF q
<1> DEFINE none == {}
<1>0. /\ q \in Peers /\ Kind(p) /\ SenderSame(p) /\ Accounted(p)' /\ Identified(p)'
      /\ OnWire(q)' \subseteq OnWire(q) \cup none
      /\ Outgoing(p)' \cup Abandoned(p)' \subseteq Outgoing(p) \cup Abandoned(p) \cup none
  BY AccountedKept, OtherPeer DEF Kind, TakesPubrel, Carries, SenderSame, q
<1>1. PICK r \in OnWire(q) :
        /\ r.type = "PUBREL"
        /\ inbound'[q] = Without(inbound[q], Awaits(q, r.id))
        /\ Gains(q, Only(inbound[q], Awaits(q, r.id)))
        /\ Carries(p, {Frame("PUBCOMP", r.id, 0)})
  BY DEF TakesPubrel, q
<1>2. PICK f \in Published(p) : f.arg = 2 /\ r = Pubrel(f) /\ Holds(q, f)
  BY <1>1 DEF SafeInv, Released, ReleasesHeld, q
<1>3. /\ Waiting(q)' = {g \in Waiting(q) : g.id # r.id}
      /\ Got(q)' = Got(q) \cup {g \in Waiting(q) : g.id = r.id}
  BY <1>0, <1>1, ReleasingWaits
<1>4. r.id = f.id /\ f \in Got(q)'
  BY <1>2, <1>3 DEF Holds, Pubrel, Frame
<1> DEFINE a == Frame("PUBCOMP", r.id, 0)
           B == {a}
<1>5. a.type = "PUBCOMP" /\ a.id = f.id /\ OnWire(p)' \subseteq OnWire(p) \cup B
  BY <1>1, <1>4 DEF Frame, Carries
<1> HIDE DEF a
<1>6. \A x \in B : AcknowledgesHeld(p, x)'
  BY <1>0, <1>2, <1>4, <1>5 DEF AcknowledgesHeld, Answers, SenderSame, q
<1>7. /\ \A g \in Waiting(q)' : \/ g \in Waiting(q)
                                \/ g \in Published(p) /\ g.arg = 2
      /\ \A g \in Got(q)' : g.type = "PUBLISH" => g \in Got(q) \cup Published(p)
  BY <1>3 DEF SafeInv, Genuine, q
<1>8. \A x \in none : ReleasesHeld(p, x)' /\ (x.type = "PUBLISH" => x \in Published(p)')
  OBVIOUS
<1> HIDE DEF none, B
<1> QED
  BY <1>0, <1>5, <1>6, <1>7, <1>8, FramesKeepSafe DEF q

(* The sender handles an acknowledgement.                                   *)
LEMMA TakesAckSafe ==
    ASSUME TypeOK, NEW p \in Peers, SafeInv(p), TakesAck(p)
    PROVE  SafeInv(p)'
<1> DEFINE q == Other(p)
<1> HIDE DEF q
<1>0. /\ Kind(p) /\ ReceiverSame(q) /\ Published(p)' = Published(p)
      /\ Abandoned(p)' = Abandoned(p)
  BY DEF Kind, TakesAck, q
<1>1. PICK a \in OnWire(p) :
        LET rest == {x \in Outgoing(p) : ~(x.type = RequestType(a.type) /\ x.id = a.id)}
            pubrel == Frame("PUBREL", a.id, 0)
        IN  /\ a.type \in Acks \cup {"SUBACK", "UNSUBACK"}
            /\ \/ /\ a.type = "PUBREC"
                  /\ Outgoing(p)' = rest \cup {pubrel} /\ Carries(q, {pubrel})
               \/ /\ a.type # "PUBREC"
                  /\ Outgoing(p)' = rest /\ Carries(q, {})
  BY DEF TakesAck, q
<1> DEFINE pubrel == Frame("PUBREL", a.id, 0)
           F == IF a.type = "PUBREC" THEN {pubrel} ELSE {}
           none == {}
<1>2. /\ \A x \in Outgoing(p)' : x \in Outgoing(p) \/ x \in F
      /\ \A x \in Outgoing(p) : \/ x \in Outgoing(p)'
                                \/ x.type = RequestType(a.type) /\ x.id = a.id
      /\ \A x \in F : a.type = "PUBREC" /\ x = pubrel /\ x \in Outgoing(p)'
      /\ OnWire(q)' \subseteq OnWire(q) \cup F
  BY <1>1 DEF Carries
<1>3. a.type = "PUBREC" => pubrel \in Outgoing(p)'
  BY <1>1
<1>4. pubrel.type = "PUBREL" /\ \A f : f.id = a.id => Pubrel(f) = pubrel
  BY DEF Frame, Pubrel
<1>5. \A f : Pubrel(f).type = "PUBREL" /\ Pubrel(f).id = f.id
  BY DEF Frame, Pubrel
<1>6. AcknowledgesHeld(p, a) /\ OnWire(p)' \subseteq OnWire(p) \cup none
  BY DEF SafeInv, Acknowledged, TakesAck, Carries
<1>7. Waiting(q)' = Waiting(q) /\ \A g : g.type = "PUBLISH" => (g \in Got(q)' <=> g \in Got(q))
  BY <1>0 DEF ReceiverSame, Waiting, SameReceived
<1> HIDE DEF pubrel, F, none
<1>8. \A x \in F : ReleasesHeld(p, x)' /\ (x.type = "PUBLISH" => x \in Published(p)')
  <2> SUFFICES ASSUME NEW x \in F
               PROVE  ReleasesHeld(p, x)' /\ (x.type = "PUBLISH" => x \in Published(p)')
    OBVIOUS
  <2>1. a.type = "PUBREC" /\ x = pubrel
    BY <1>2
  <2>2. PICK f : f \in Published(p) /\ f.id = a.id /\ f.arg = 2 /\ Holds(q, f)
    BY <1>6, <2>1 DEF AcknowledgesHeld, Answers, q
  <2>3. Holds(q, f)'
    BY <1>0, <2>2, KindKeeps DEF q
  <2> QED
    BY <1>0, <1>4, <2>1, <2>2, <2>3 DEF ReleasesHeld, q
<1>9. Identified(p)'
  BY <1>0 DEF SafeInv, Identified
<1>10. \A g \in Published(p) : g.type = "PUBLISH"
  BY DEF SafeInv, Identified
<1>11. ASSUME NEW g \in Published(p), g.arg > 0, g \in Outgoing(p), g \notin Outgoing(p)'
       PROVE  g \in Got(q) \/ (Pubrel(g) \in Outgoing(p)' /\ g \in Waiting(q))
  <2>1. RequestType(a.type) = "PUBLISH" /\ g.id = a.id
    BY <1>2, <1>10, <1>11
  <2>2. a.type \in {"PUBACK", "PUBREC"}
    BY <1>1, <2>1 DEF RequestType, Acks
  <2>3. CASE a.type = "PUBACK"
    <3>1. PICK f : f \in Published(p) /\ f.id = a.id /\ f \in Got(q)
      BY <1>6, <2>3 DEF AcknowledgesHeld, Answers, q
    <3>2. f = g
      BY <2>1, <3>1 DEF SafeInv, Identified
    <3> QED
      BY <3>1, <3>2
  <2>4. CASE a.type = "PUBREC"
    <3>1. PICK f : f \in Published(p) /\ f.id = a.id /\ Holds(q, f)
      BY <1>6, <2>4 DEF AcknowledgesHeld, Answers, q
    <3>2. f = g
      BY <2>1, <3>1 DEF SafeInv, Identified
    <3> QED
      BY <1>3, <1>4, <2>1, <2>4, <3>1, <3>2 DEF Holds
  <2> QED
    BY <2>2, <2>3, <2>4
<1>12. ASSUME NEW g \in Published(p), Pubrel(g) \in Outgoing(p), Pubrel(g) \notin Outgoing(p)'
       PROVE  g \in Got(q)
  <2>1. RequestType(a.type) = "PUBREL" /\ g.id = a.id
    BY <1>2, <1>5, <1>12
  <2>2. a.type = "PUBCOMP"
    BY <1>1, <2>1 DEF RequestType, Acks
  <2>3. PICK f : f \in Published(p) /\ f.id = a.id /\ f \in Got(q)
    BY <1>6, <2>2 DEF AcknowledgesHeld, Answers, q
  <2>4. f = g
    BY <2>1, <2>3 DEF SafeInv, Identified
  <2> QED
    BY <2>3, <2>4
<1>13. Accounted(p)'
  <2> SUFFICES ASSUME NEW g \in Published(p), g.arg > 0
               PROVE  \/ g \in Outgoing(p)'
                      \/ Pubrel(g) \in Outgoing(p)' /\ g \in Waiting(q)
                      \/ g \in Got(q)
                      \/ g \in Abandoned(p) \/ Pubrel(g) \in Abandoned(p)
    BY <1>0, <1>7, <1>10 DEF Accounted, q
  <2>1. \/ g \in Outgoing(p)
        \/ Pubrel(g) \in Outgoing(p) /\ g \in Waiting(q)
        \/ g \in Got(q)
        \/ g \in Abandoned(p) \/ Pubrel(g) \in Abandoned(p)
    BY DEF SafeInv, Accounted, q
  <2> QED
    BY <1>11, <1>12, <2>1
<1>14. Outgoing(p)' \cup Abandoned(p)' \subseteq Outgoing(p) \cup Abandoned(p) \cup F
  BY <1>0, <1>2
<1>15. \A x \in none : AcknowledgesHeld(p, x)'
  BY DEF none
<1>16. \A g \in Got(q)' : g.type = "PUBLISH" => g \in Got(q) \cup Published(p)
  BY <1>7
<1> QED
  BY <1>0, <1>2, <1>6, <1>7, <1>8, <1>9, <1>13, <1>14, <1>15, <1>16, FramesKeepSafe DEF q

(* No step queues a frame that needs no acknowledgement.                    *)
LEMMA QueuesStep ==
    ASSUME TypeOK, QueuesRequests, [Next]_vars
    PROVE  QueuesRequests'
<1> SUFFICES ASSUME NEW p \in Peers, NEW f \in Outgoing(p)'
             PROVE  f.type \in {"PUBLISH", "PUBREL", "SUBSCRIBE", "UNSUBSCRIBE"}
  BY DEF QueuesRequests
<1>1. Kind(p)
  BY StepKinds
<1>2. CASE Idle(p) \/ TakesPublish(p) \/ TakesPubrel(p)
  BY <1>2 DEF Idle, TakesPublish, TakesPubrel, SenderSame, QueuesRequests
<1>3. CASE Submits(p)
  BY <1>3 DEF Submits, QueuesRequests
<1>4. CASE Resends(p)
  BY <1>4 DEF Resends, QueuesRequests
<1>5. CASE TakesAck(p)
  <2>1. PICK a : \/ f \in Outgoing(p)
                 \/ f = Frame("PUBREL", a.id, 0)
    BY <1>5 DEF TakesAck
  <2> QED
    BY <2>1 DEF QueuesRequests, Frame
<1> QED
  BY <1>1, <1>2, <1>3, <1>4, <1>5 DEF Kind

(* The invariant of the publications of p.                                  *)
LEMMA SafeStep ==
    ASSUME TypeOK, QueuesRequests, \A p \in Peers : SafeInv(p), [Next]_vars
    PROVE  \A p \in Peers : SafeInv(p)'
<1> SUFFICES ASSUME NEW p \in Peers PROVE SafeInv(p)'
  OBVIOUS
<1>1. Kind(p) /\ SafeInv(p)
  BY StepKinds
<1> QED
  BY <1>1, IdleSafe, SubmitsSafe, ResendsSafe, TakesPublishSafe, TakesPubrelSafe, TakesAckSafe
  DEF Kind

(* In the initial state nothing is published, queued or on its way.         *)
LEMMA InitEmpty ==
    ASSUME Init, NEW p \in Peers
    PROVE  /\ Published(p) = {} /\ Outgoing(p) = {} /\ Abandoned(p) = {} /\ OnWire(p) = {}
           /\ Waiting(p) = {} /\ Got(p) = {} /\ requested[p] = {} /\ todo[p] = {}
           /\ Received(p) = <<>> /\ Wire(p) = <<>>
<1>1. /\ published[p] = <<>> /\ outgoing[p] = <<>> /\ abandoned[p] = {}
      /\ buffer[p] = <<>> /\ net[p] = <<>> /\ inbound[p] = <<>>
      /\ delivered[p] = <<>> /\ incoming[p] = <<>> /\ requested[p] = {} /\ todo[p] = {}
  BY DEF Init
<1>2. Received(p) = <<>> /\ Wire(p) = <<>>
  BY <1>1 DEF Received, Wire
<1> QED
  BY <1>1, <1>2, NoEntry DEF Published, Outgoing, Abandoned, OnWire, Waiting, Got

\* The invariant behind NoSilentLoss, of both streams.
AllSafe == QueuesRequests /\ \A p \in Peers : SafeInv(p)

(* The streams that stream_mqtt_open returns have nothing to account for.   *)
LEMMA SafeInit ==
    ASSUME Init
    PROVE  QueuesRequests /\ \A p \in Peers : SafeInv(p)
<1>1. ASSUME NEW p \in Peers
      PROVE  QueuesRequests /\ SafeInv(p)
  BY InitEmpty, OtherPeer
  DEF QueuesRequests, SafeInv, Identified, Genuine, Released, Acknowledged, Accounted
<1> QED
  BY <1>1 DEF Peers

(* What every stream has published is accounted for: a message of QoS 1 or  *)
(* 2 leaves outgoing only when its receiver has it (stream_mqtt.c sends no  *)
(* acknowledgement for anything else) or when stream_mqtt_do_time gives it  *)
(* up.                                                                      *)
THEOREM LossIsNotSilent == Spec => []NoSilentLoss
<1>1. Init => AllSafe
  BY SafeInit DEF AllSafe
<1>2. TypeOK /\ AllSafe /\ [Next]_vars => AllSafe'
  BY QueuesStep, SafeStep DEF AllSafe
<1>3. AllSafe => NoSilentLoss
  BY DEF AllSafe, SafeInv, Accounted, NoSilentLoss, Got, Waiting
<1> QED
  BY <1>1, <1>2, <1>3, TypeInit, TypeStep, PTL DEF Spec

-----------------------------------------------------------------------------
(* Exactly once: the receiver never gets a message of QoS 2 again.         *)

\* The PUBREL of the message f is not ahead of it; once there is one, or the
\* receiver's application has f, the sender does not write f any more; the
\* receiver sees no f once its application has it, and that once.
Once(p, f) ==
    /\ ~Ahead(Other(p), Pubrel(f), f)
    /\ \/ Pubrel(f) \in Outgoing(p) \cup Abandoned(p) \cup OnWire(Other(p))
       \/ f \in Got(Other(p))
       => f \notin Outgoing(p)
    /\ f \in Got(Other(p)) => f \notin OnWire(Other(p)) /\ f \notin Waiting(Other(p))
    /\ Count(Other(p), f) <= 1

OnceInv(p) ==
    /\ \A f \in Published(p) : f.arg = 2 => Once(p, f)
    /\ \A x, y : Before(inbound[Other(p)], x, y) => x.id # y.id

(* A packet id and its PUBREL.                                              *)
LEMMA PubrelOf ==
    /\ \A f : Pubrel(f).type = "PUBREL" /\ Pubrel(f).id = f.id
    /\ \A f, g : Pubrel(f) = Pubrel(g) <=> f.id = g.id
  BY DEF Pubrel, Frame

(* Nothing is known of a message before it is published.                    *)
LEMMA UnpublishedUnknown ==
    ASSUME NEW p, SafeInv(p), NEW f, f.type = "PUBLISH", \A g \in Published(p) : g.id # f.id
    PROVE  /\ f \notin Outgoing(p) /\ f \notin Abandoned(p) /\ f \notin OnWire(Other(p))
           /\ f \notin Got(Other(p)) /\ f \notin Waiting(Other(p)) /\ f \notin Published(p)
           /\ Pubrel(f) \notin Outgoing(p) \cup Abandoned(p) \cup OnWire(Other(p))
           /\ \A a \in OnWire(p) : a.type \in Acks => a.id # f.id
<1>1. f \notin Published(p)
  OBVIOUS
<1>2. Pubrel(f) \notin Outgoing(p) \cup Abandoned(p) \cup OnWire(Other(p))
  BY PubrelOf DEF SafeInv, Released, ReleasesHeld
<1>3. \A a \in OnWire(p) : a.type \in Acks => a.id # f.id
  BY DEF SafeInv, Acknowledged, AcknowledgesHeld, Answers, Acks
<1> QED
  BY <1>1, <1>2, <1>3 DEF SafeInv, Genuine

(* What a step must not do to a message of QoS 2: write it when it should   *)
(* not, give it to the receiver or let it wait without need.                *)
LEMMA OnceKept ==
    ASSUME TypeOK, NEW p \in Peers, NEW f, f.type = "PUBLISH", Once(p, f), NEW F,
           Carries(Other(p), F), f \in F => f \in Outgoing(p),
           Pubrel(f) \in F => f \notin Outgoing(p)',
           f \in Outgoing(p)' => f \in Outgoing(p),
           Outgoing(p)' \cup Abandoned(p)' \subseteq Outgoing(p) \cup Abandoned(p) \cup F,
           f \in F => Pubrel(f) \notin F,
           Count(Other(p), f)' = Count(Other(p), f),
           f \in Got(Other(p))' <=> f \in Got(Other(p)),
           f \in Waiting(Other(p))' => f \in Waiting(Other(p)) \cup OnWire(Other(p))
    PROVE  Once(p, f)'
<1> DEFINE q == Other(p)
<1>1. ~Ahead(q, Pubrel(f), f)'
  BY DEF Carries, Once
<1>2. \/ Pubrel(f) \in Outgoing(p)' \cup Abandoned(p)' \cup OnWire(q)'
      \/ f \in Got(q)'
      => f \notin Outgoing(p)'
  BY DEF Carries, Once
<1>3. f \in Got(q)' => f \notin OnWire(q)' /\ f \notin Waiting(q)'
  BY DEF Carries, Once
<1>4. Count(q, f)' <= 1
  BY DEF Once
<1> QED
  BY <1>1, <1>2, <1>3, <1>4 DEF Once

(* Steps in which the receiver handles nothing of p.                        *)
LEMMA SenderKeepsOnce ==
    ASSUME TypeOK, NEW p \in Peers, SafeInv(p), OnceInv(p),
           Idle(p) \/ Submits(p) \/ Resends(p) \/ TakesAck(p)
    PROVE  OnceInv(p)'
<1> DEFINE q == Other(p)
<1> HIDE DEF q
<1>1. ReceiverSame(q)
  BY DEF Idle, Submits, Resends, TakesAck, q
<1>2. /\ Waiting(q)' = Waiting(q)
      /\ \A f : f.type = "PUBLISH" => /\ Count(q, f)' = Count(q, f)
                                      /\ f \in Got(q)' <=> f \in Got(q)
  BY <1>1 DEF ReceiverSame, Waiting, SameReceived
<1>3. \A x, y : Before(inbound[q], x, y)' => x.id # y.id
  BY <1>1 DEF ReceiverSame, OnceInv, q
<1>4. ASSUME NEW f \in Published(p), f.arg = 2
      PROVE  Once(p, f)'
  <2>1. f.type = "PUBLISH" /\ Once(p, f)
    BY <1>4 DEF SafeInv, Identified, OnceInv
  <2>2. Pubrel(f).type = "PUBREL"
    BY PubrelOf
  <2>3. CASE Idle(p)
    <3>1. PICK F : Carries(q, F) /\ \A x \in F : x.type \notin Waiters
      BY <2>3 DEF Idle, q
    <3>2. f \notin F /\ Pubrel(f) \notin F
      BY <2>1, <2>2, <3>1 DEF Waiters
    <3>3. Outgoing(p)' = Outgoing(p) /\ Abandoned(p)' = Abandoned(p)
      BY <2>3 DEF Idle, SenderSame
    <3> QED
      BY <1>2, <2>1, <3>1, <3>2, <3>3, OnceKept DEF q
  <2>4. CASE Submits(p)
    <3>1. PICK g :
            /\ \/ g.type = "PUBLISH" /\ \A h \in Published(p) : h.id # g.id
               \/ g.type \in {"SUBSCRIBE", "UNSUBSCRIBE"}
            /\ Outgoing(p)' = Outgoing(p) \cup {g} \/ Outgoing(p)' = Outgoing(p)
            /\ Carries(q, {g})
      BY <2>4 DEF Submits, q
    <3> DEFINE F == {g}
    <3>2. f \notin F /\ Pubrel(f) \notin F
      BY <2>1, <2>2, <3>1
    <3>3. Abandoned(p)' = Abandoned(p)
      BY <2>4 DEF Submits
    <3>4. /\ Carries(q, F)
          /\ f \in Outgoing(p)' => f \in Outgoing(p)
          /\ Outgoing(p)' \cup Abandoned(p)' \subseteq Outgoing(p) \cup Abandoned(p) \cup F
      BY <3>1, <3>2, <3>3
    <3> HIDE DEF F
    <3> QED
      BY <1>2, <2>1, <3>2, <3>4, OnceKept DEF q
  <2>5. CASE Resends(p)
    <3>1. PICK H : Outgoing(p) = Outgoing(p)' \cup H /\ Abandoned(p)' = Abandoned(p) \cup H
      BY <2>5 DEF Resends
    <3> DEFINE ping == Frame("PINGREQ", NoId, 0)
    <3>2. ping.type = "PINGREQ"
      BY DEF Frame
    <3>3. Carries(q, {ping}) \/ \E g \in Outgoing(p)' : Carries(q, {ping, g})
      BY <2>5 DEF Resends, q
    <3>4. PICK F : /\ Carries(q, F)
                   /\ \/ F = {ping}
                      \/ \E g \in Outgoing(p)' : F = {ping, g}
      BY <3>3
    <3> HIDE DEF ping
    <3>5. f # ping /\ Pubrel(f) # ping /\ Pubrel(f) # f
      BY <2>1, <2>2, <3>2
    <3>6. /\ f \in F => f \in Outgoing(p)' /\ Pubrel(f) \notin F
          /\ Pubrel(f) \in F => Pubrel(f) \in Outgoing(p)'
      BY <3>4, <3>5
    <3>7. /\ f \in Outgoing(p)' => f \in Outgoing(p)
          /\ Pubrel(f) \in Outgoing(p)' => Pubrel(f) \in Outgoing(p)
          /\ Outgoing(p)' \cup Abandoned(p)' \subseteq Outgoing(p) \cup Abandoned(p) \cup F
      BY <3>1
    <3>8. Pubrel(f) \in F => f \notin Outgoing(p)'
      BY <2>1, <3>6, <3>7 DEF Once
    <3> QED
      BY <1>2, <2>1, <3>4, <3>6, <3>7, <3>8, OnceKept DEF q
  <2>6. CASE TakesAck(p)
    <3>1. PICK a :
            LET pubrel == Frame("PUBREL", a.id, 0)
            IN  \/ /\ a.type = "PUBREC"
                   /\ \A x \in Outgoing(p)' :
                        \/ x = pubrel
                        \/ x \in Outgoing(p) /\ ~(x.type = "PUBLISH" /\ x.id = a.id)
                   /\ Carries(q, {pubrel})
                \/ Outgoing(p)' \subseteq Outgoing(p) /\ Carries(q, {})
      BY <2>6 DEF TakesAck, RequestType, q
    <3> DEFINE pubrel == Frame("PUBREL", a.id, 0)
    <3>2. pubrel.type = "PUBREL" /\ pubrel.id = a.id
      BY DEF Frame
    <3>3. PICK F :
            /\ Carries(q, F)
            /\ \A x \in Outgoing(p)' : x \in Outgoing(p) \/ x \in F
            /\ \A x \in F : /\ x = pubrel
                            /\ \A y \in Outgoing(p)' :
                                 ~(y.type = "PUBLISH" /\ y.id = a.id)
      <4>1. CASE Outgoing(p)' \subseteq Outgoing(p) /\ Carries(q, {})
        BY <4>1
      <4>2. CASE /\ \A x \in Outgoing(p)' :
                      \/ x = pubrel
                      \/ x \in Outgoing(p) /\ ~(x.type = "PUBLISH" /\ x.id = a.id)
                 /\ Carries(q, {pubrel})
        <5>1. \A y \in Outgoing(p)' : ~(y.type = "PUBLISH" /\ y.id = a.id)
          BY <3>2, <4>2
        <5> DEFINE F == {pubrel}
        <5>2. /\ Carries(q, F)
              /\ \A x \in Outgoing(p)' : x \in Outgoing(p) \/ x \in F
              /\ \A x \in F : x = pubrel
          BY <4>2
        <5> HIDE DEF F
        <5> QED
          BY <5>1, <5>2
      <4> QED
        BY <3>1, <4>1, <4>2
    <3> HIDE DEF pubrel
    <3>4. f \notin F /\ (Pubrel(f) \in F => f \notin Outgoing(p)')
      <4>1. f # pubrel /\ (Pubrel(f) = pubrel => f.id = a.id)
        BY <2>1, <3>2, PubrelOf
      <4> QED
        BY <2>1, <3>3, <4>1
    <3>5. f \in Outgoing(p)' => f \in Outgoing(p)
      BY <3>3, <3>4
    <3>6. Outgoing(p)' \cup Abandoned(p)' \subseteq Outgoing(p) \cup Abandoned(p) \cup F
      BY <2>6, <3>3 DEF TakesAck
    <3> QED
      BY <1>2, <2>1, <3>3, <3>4, <3>5, <3>6, OnceKept DEF q
  <2> QED
    BY <2>3, <2>4, <2>5, <2>6
<1>5. ASSUME NEW f \in Published(p)', f \notin Published(p)
      PROVE  Once(p, f)'
  <2>1. /\ f.type = "PUBLISH" /\ \A g \in Published(p) : g.id # f.id
        /\ Outgoing(p)' \subseteq Outgoing(p) \cup {f}
        /\ Carries(q, {f}) /\ Abandoned(p)' = Abandoned(p)
    <3>1. Submits(p)
      BY <1>5 DEF Idle, Resends, TakesAck, SenderSame
    <3> QED
      BY <1>5, <3>1 DEF Submits, q
  <2>2. /\ f \notin Got(q) /\ f \notin Waiting(q)
        /\ Pubrel(f) \notin Outgoing(p) \cup Abandoned(p) \cup OnWire(q) \cup {f}
    BY <2>1, UnpublishedUnknown, PubrelOf DEF q
  <2>3. /\ Pubrel(f) \notin Outgoing(p)' \cup Abandoned(p)' \cup OnWire(q)'
        /\ f \notin Got(q)' /\ f \notin Waiting(q)'
    BY <1>2, <2>1, <2>2 DEF Carries
  <2>4. ~Ahead(q, Pubrel(f), f)'
    BY <2>3, BeforeEntries DEF Ahead, OnWire
  <2>5. Count(q, f)' <= 1
    <3>1. Count(q, f) \in Nat /\ ~(Count(q, f) > 0)
      BY <2>2, ReceivedTyped, OtherPeer DEF q
    <3> QED
      BY <1>2, <2>1, <3>1
  <2> QED
    BY <2>3, <2>4, <2>5 DEF Once, q
<1> QED
  BY <1>3, <1>4, <1>5 DEF OnceInv, q

(* The receiver handles a PUBLISH.                                          *)
LEMMA TakesPublishOnce ==
    ASSUME TypeOK, NEW p \in Peers, SafeInv(p), OnceInv(p), TakesPublish(p)
    PROVE  OnceInv(p)'
<1> DEFINE q == Other(p)
           F == {}
<1> HIDE DEF q
<1>1. /\ q \in Peers /\ Carries(q, F)
      /\ Published(p)' = Published(p) /\ Outgoing(p)' = Outgoing(p)
      /\ Abandoned(p)' = Abandoned(p)
  BY OtherPeer DEF TakesPublish, SenderSame, q
<1>2. PICK h \in OnWire(q) :
        /\ h.type = "PUBLISH"
        /\ \/ /\ h.arg = 2
              /\ inbound'[q] = ReplacingCopies(inbound[q], h)
              /\ SameReceived(q)
           \/ /\ h.arg # 2
              /\ inbound'[q] = inbound[q]
              /\ Gains(q, <<h>>)
  BY DEF TakesPublish, q
<1>3. h \in FrameType
  BY <1>1, <1>2, WireTyped
<1>4. ASSUME NEW f \in Published(p), f.arg = 2
      PROVE  /\ Count(q, f)' = Count(q, f) /\ (f \in Got(q)' <=> f \in Got(q))
             /\ f \in Waiting(q)' => f \in Waiting(q) \cup OnWire(q)
  <2>1. f.type = "PUBLISH"
    BY DEF SafeInv, Identified
  <2>2. CASE inbound'[q] = ReplacingCopies(inbound[q], h) /\ SameReceived(q)
    <3>1. Waiting(q)' = {g \in Waiting(q) : ~(g.type = "PUBLISH" /\ g.id = h.id)} \cup {h}
      BY <1>1, <1>3, <2>2, ReplacingWaits
    <3> QED
      BY <2>1, <2>2, <3>1 DEF SameReceived
  <2>3. CASE h.arg # 2 /\ inbound'[q] = inbound[q] /\ Gains(q, <<h>>)
    <3>1. Waiting(q)' = Waiting(q)
      BY <2>3 DEF Waiting
    <3>2. Copies(f, <<h>>) = 0 /\ f \notin ToSet(<<h>>)
      BY <1>4, <2>3, CopiesSingle, SingleEntry
    <3>3. Count(q, f) \in Nat
      BY <1>1, ReceivedTyped
    <3> QED
      BY <2>3, <3>1, <3>2, <3>3 DEF Gains
  <2> QED
    BY <1>2, <2>2, <2>3
<1>5. ASSUME NEW f \in Published(p), f.arg = 2
      PROVE  Once(p, f)'
  <2>1. f.type = "PUBLISH" /\ Once(p, f)
    BY <1>5 DEF SafeInv, Identified, OnceInv
  <2>2. f \notin F /\ Pubrel(f) \notin F
    OBVIOUS
  <2>3. Outgoing(p)' \cup Abandoned(p)' \subseteq Outgoing(p) \cup Abandoned(p) \cup F
    BY <1>1
  <2> HIDE DEF F
  <2> QED
    BY <1>1, <1>4, <1>5, <2>1, <2>2, <2>3, OnceKept DEF q
<1>6. ASSUME NEW x, NEW y, Before(inbound'[q], x, y)
      PROVE  x.id # y.id
  <2>1. CASE inbound'[q] = ReplacingCopies(inbound[q], h)
    <3>1. \/ Before(inbound[q], x, y)
          \/ x \in Waiting(q) /\ ~(x.type = "PUBLISH" /\ x.id = h.id) /\ y = h
      BY <1>1, <1>3, <1>6, <2>1, ReplacingWaits
    <3>2. \A g \in Waiting(q) : g.type = "PUBLISH"
      BY DEF SafeInv, Genuine, Identified, q
    <3> QED
      BY <3>1, <3>2 DEF OnceInv, q
  <2>2. CASE inbound'[q] = inbound[q]
    BY <1>6, <2>2 DEF OnceInv, q
  <2> QED
    BY <1>2, <2>1, <2>2
<1> QED
  BY <1>1, <1>5, <1>6 DEF OnceInv, q

(* The receiver handles a PUBREL: its application gets the message, which   *)
(* waits no more and is not on its way, because it would be ahead of the    *)
(* PUBREL.                                                                  *)
LEMMA TakesPubrelOnce ==
    ASSUME TypeOK, NEW p \in Peers, SafeInv(p), OnceInv(p), TakesPubrel(p)
    PROVE  OnceInv(p)'
<1> DEFINE q == Other(p)
           F == {}
<1> HIDE DEF q
<1>1. /\ q \in Peers /\ Carries(q, F)
      /\ Published(p)' = Published(p) /\ Outgoing(p)' = Outgoing(p)
      /\ Abandoned(p)' = Abandoned(p)
  BY OtherPeer DEF TakesPubrel, SenderSame, q
<1>2. PICK r \in OnWire(q) :
        /\ r.type = "PUBREL"
        /\ \A y \in OnWire(q)' : Ahead(q, r, y)
        /\ inbound'[q] = Without(inbound[q], Awaits(q, r.id))
        /\ Gains(q, Only(inbound[q], Awaits(q, r.id)))
  BY DEF TakesPubrel, q
<1>3. /\ Waiting(q)' = {g \in Waiting(q) : g.id # r.id}
      /\ \A x, y : Before(inbound'[q], x, y) => Before(inbound[q], x, y)
      /\ Got(q)' = Got(q) \cup {g \in Waiting(q) : g.id = r.id}
  BY <1>1, <1>2, ReleasingWaits
<1>4. PICK taken \in Seq(FrameType) :
        /\ ToSet(taken) = {g \in Waiting(q) : g.id = r.id}
        /\ \A x, y : Before(taken, x, y) => Before(inbound[q], x, y)
        /\ Gains(q, taken)
  BY <1>1, <1>2, ReleasingWaits
<1>5. PICK h \in Published(p) : h.arg = 2 /\ r = Pubrel(h)
  BY <1>2 DEF SafeInv, Released, ReleasesHeld, q
<1>6. OnWire(q)' \subseteq OnWire(q)
  BY <1>1 DEF Carries
<1>7. ASSUME NEW f \in Published(p), f.arg = 2
      PROVE  Once(p, f)'
  <2>1. f.type = "PUBLISH" /\ Once(p, f)
    BY <1>7 DEF SafeInv, Identified, OnceInv
  <2>2. CASE f.id = r.id /\ f \in Waiting(q)
    <3>1. f = h /\ r = Pubrel(f)
      BY <1>5, <2>2, PubrelOf DEF SafeInv, Identified
    <3>2. f \notin Got(q)
      BY <2>1, <2>2 DEF Once, q
    <3>3. Count(q, f) = 0
      BY <1>1, <3>2, ReceivedTyped
    <3>4. Copies(f, taken) \in Nat /\ Copies(f, taken) <= 1
      <4>1. ~Before(taken, f, f)
        BY <1>4 DEF OnceInv, q
      <4> QED
        BY <4>1, CopiesNumber
    <3>5. Count(q, f)' <= 1
      BY <1>4, <3>3, <3>4 DEF Gains
    <3>6. f \notin OnWire(q)'
      BY <1>2, <2>1, <3>1 DEF Once, q
    <3>7. f \notin Waiting(q)'
      BY <1>3, <2>2
    <3>8. ~Ahead(q, Pubrel(f), f)'
      BY <3>6, BeforeEntries DEF Ahead, OnWire
    <3>9. f \notin Outgoing(p)'
      BY <1>1, <1>2, <2>1, <3>1 DEF Once, q
    <3> QED
      BY <3>5, <3>6, <3>7, <3>8, <3>9 DEF Once, q
  <2>3. CASE ~(f.id = r.id /\ f \in Waiting(q))
    <3>1. f \notin ToSet(taken)
      BY <1>4, <2>3
    <3>2. Copies(f, taken) = 0
      BY <3>1, CopiesNumber
    <3>3. Count(q, f)' = Count(q, f)
      <4>1. Count(q, f) \in Nat
        BY <1>1, ReceivedTyped
      <4> QED
        BY <1>4, <3>2, <4>1 DEF Gains
    <3>4. /\ f \in Got(q)' <=> f \in Got(q)
          /\ f \in Waiting(q)' => f \in Waiting(q) \cup OnWire(q)
      BY <1>3, <2>3
    <3>5. f \notin F /\ Pubrel(f) \notin F
      OBVIOUS
    <3>6. Outgoing(p)' \cup Abandoned(p)' \subseteq Outgoing(p) \cup Abandoned(p) \cup F
      BY <1>1
    <3> HIDE DEF F
    <3> QED
      BY <1>1, <2>1, <3>3, <3>4, <3>5, <3>6, OnceKept DEF q
  <2> QED
    BY <2>2, <2>3
<1>8. \A x, y : Before(inbound'[q], x, y) => x.id # y.id
  BY <1>3 DEF OnceInv, q
<1> QED
  BY <1>1, <1>7, <1>8 DEF OnceInv, q

\* The invariant behind ExactlyOnce, of both streams.
AllOnce == \A p \in Peers : OnceInv(p)

(* Streams that stream_mqtt_open returns hold nothing for a PUBREL.         *)
LEMMA OnceInit == Init => AllSafe /\ AllOnce
<1> SUFFICES ASSUME Init PROVE AllSafe /\ AllOnce
  OBVIOUS
<1>1. \A p \in Peers : Published(p) = {} /\ inbound[Other(p)] = <<>>
  BY InitEmpty, OtherPeer DEF Init
<1> QED
  BY <1>1, SafeInit, NoEntry DEF AllSafe, AllOnce, OnceInv

(* Every step of the two streams keeps both invariants.                     *)
LEMMA OnceStep ==
    ASSUME TypeOK, AllSafe, AllOnce, [Next]_vars
    PROVE  AllSafe' /\ AllOnce'
<1>1. QueuesRequests /\ \A p \in Peers : SafeInv(p) /\ OnceInv(p)
  BY DEF AllSafe, AllOnce
<1>2. AllSafe'
  BY <1>1, QueuesStep, SafeStep DEF AllSafe
<1>3. ASSUME NEW p \in Peers PROVE OnceInv(p)'
  <2>1. SafeInv(p) /\ OnceInv(p) /\ Kind(p)
    BY <1>1, StepKinds
  <2> QED
    BY <2>1, SenderKeepsOnce, TakesPublishOnce, TakesPubrelOnce DEF Kind
<1> QED
  BY <1>2, <1>3 DEF AllOnce

(* The messages of QoS 2 are given to an application at most once, for any  *)
(* number of messages, losses, resends and frames given up: inbound keeps   *)
(* one copy until the PUBREL, and behind the PUBREL the sender writes none. *)
THEOREM GivenOnce == Spec => []ExactlyOnce
<1>1. Init => AllSafe /\ AllOnce
  BY OnceInit
<1>2. TypeOK /\ AllSafe /\ AllOnce /\ [Next]_vars => AllSafe' /\ AllOnce'
  BY OnceStep
<1>3. AllOnce => ExactlyOnce
  BY DEF AllOnce, OnceInv, Once, ExactlyOnce, Count
<1> QED
  BY <1>1, <1>2, <1>3, TypeInit, TypeStep, PTL DEF Spec

-----------------------------------------------------------------------------
(* The sender cares for a message of QoS 2 as long as it is on its way: it *)
(* is queued, or its PUBREL is, or it was given up.                        *)

InHand(p, f) == f \in Outgoing(p) \/ Pubrel(f) \in Outgoing(p)

GivenUp(p, f) == f \in Abandoned(p) \/ Pubrel(f) \in Abandoned(p)

Cared(p, f) == InHand(p, f) \/ GivenUp(p, f)

CareInv(p) ==
    /\ \A f \in Published(p) : f.arg = 2 =>
         /\ f \in OnWire(Other(p)) => Cared(p, f)
         /\ \A a \in OnWire(p) : a.type = "PUBREC" /\ a.id = f.id => Cared(p, f)
    /\ \A x, y : Ahead(p, x, y) /\ x.type = "PUBCOMP" /\ y.type = "PUBREC" => x.id # y.id

(* A step that brings no message and no PUBREC on its way without care.     *)
LEMMA CareKept ==
    ASSUME NEW p \in Peers, CareInv(p), Published(p)' = Published(p), NEW B, NEW F,
           Carries(p, B), Carries(Other(p), F),
           \A f \in Published(p) : f.arg = 2 =>
              /\ \/ Cared(p, f)' \/ ~Cared(p, f)
                 \/ /\ f \notin OnWire(Other(p))'
                    /\ \A a \in OnWire(p)' : ~(a.type = "PUBREC" /\ a.id = f.id)
              /\ f \in F => Cared(p, f)'
              /\ \A a \in B : a.type = "PUBREC" /\ a.id = f.id => Cared(p, f)',
           \A x \in OnWire(p) \cup B, y \in B :
              x.type = "PUBCOMP" /\ y.type = "PUBREC" => x.id # y.id
    PROVE  CareInv(p)'
<1>1. \A x, y : Ahead(p, x, y)' /\ x.type = "PUBCOMP" /\ y.type = "PUBREC" => x.id # y.id
  BY DEF CareInv, Carries
<1>2. ASSUME NEW f \in Published(p), f.arg = 2
      PROVE  /\ f \in OnWire(Other(p))' => Cared(p, f)'
             /\ \A a \in OnWire(p)' : a.type = "PUBREC" /\ a.id = f.id => Cared(p, f)'
  BY <1>2 DEF CareInv, Carries
<1> QED
  BY <1>1, <1>2 DEF CareInv

(* Calls, do_time, and steps about something else.                          *)
LEMMA SenderKeepsCare ==
    ASSUME NEW p \in Peers, SafeInv(p), CareInv(p), Idle(p) \/ Submits(p) \/ Resends(p)
    PROVE  CareInv(p)'
<1> DEFINE q == Other(p)
<1> HIDE DEF q
<1>1. PICK B : Carries(p, B) /\ \A x \in B : x.type \notin Acks
  BY DEF Idle, Submits, Resends, NoNewAck
<1>2. \A x \in B : x.type # "PUBREC"
  BY <1>1 DEF Acks
<1>3. CASE Idle(p)
  <2>1. PICK F : Carries(q, F) /\ \A x \in F : x.type \notin Waiters
    BY <1>3 DEF Idle, q
  <2>2. \A f \in Published(p) : f.type = "PUBLISH"
    BY DEF SafeInv, Identified
  <2>3. Published(p)' = Published(p) /\ \A f : Cared(p, f)' = Cared(p, f)
    BY <1>3 DEF Idle, SenderSame, Cared, InHand, GivenUp
  <2> QED
    BY <1>1, <1>2, <2>1, <2>2, <2>3, CareKept DEF q, Waiters
<1>4. CASE Resends(p)
  <2> DEFINE ping == Frame("PINGREQ", NoId, 0)
  <2>1. PICK F : /\ Carries(q, F)
                 /\ \/ F = {ping}
                    \/ \E g \in Outgoing(p)' : F = {ping, g}
    <3>1. Carries(q, {ping}) \/ \E g \in Outgoing(p)' : Carries(q, {ping, g})
      BY <1>4 DEF Resends, q
    <3> QED
      BY <3>1
  <2>2. ping.type = "PINGREQ" /\ \A f \in Published(p) : f.type = "PUBLISH"
    BY DEF Frame, SafeInv, Identified
  <2> HIDE DEF ping
  <2>3. \A f \in Published(p) : f \in F => Cared(p, f)'
    BY <2>1, <2>2 DEF Cared, InHand
  <2>4. PICK H : Outgoing(p) = Outgoing(p)' \cup H /\ Abandoned(p)' = Abandoned(p) \cup H
    BY <1>4 DEF Resends
  <2>5. \A f : Cared(p, f) => Cared(p, f)'
    BY <2>4 DEF Cared, InHand, GivenUp
  <2>6. Published(p)' = Published(p)
    BY <1>4 DEF Resends
  <2> QED
    BY <1>1, <1>2, <2>1, <2>3, <2>5, <2>6, CareKept DEF q
<1>5. CASE Submits(p)
  <2>1. PICK g :
          /\ \/ /\ g.type = "PUBLISH" /\ \A h \in Published(p) : h.id # g.id
                /\ Published(p)' = Published(p) \cup {g}
             \/ g.type \in {"SUBSCRIBE", "UNSUBSCRIBE"} /\ Published(p)' = Published(p)
          /\ \/ Outgoing(p)' = Outgoing(p) \cup {g}
             \/ g.type = "PUBLISH" /\ g.arg = 0 /\ Outgoing(p)' = Outgoing(p)
          /\ Carries(q, {g})
    BY <1>5 DEF Submits, q
  <2>2. Abandoned(p)' = Abandoned(p)
    BY <1>5 DEF Submits
  <2>3. \A f : Cared(p, f) => Cared(p, f)'
    BY <2>1, <2>2 DEF Cared, InHand, GivenUp
  <2>4. \A f \in Published(p) : f.type = "PUBLISH"
    BY DEF SafeInv, Identified
  <2>5. ASSUME NEW f \in Published(p)', f.arg = 2
        PROVE  /\ f \in OnWire(q)' => Cared(p, f)'
               /\ \A a \in OnWire(p)' : a.type = "PUBREC" /\ a.id = f.id => Cared(p, f)'
    <3>1. CASE f = g
      <4>1. f \in Outgoing(p)'
        BY <2>1, <2>5, <3>1
      <4> QED
        BY <4>1 DEF Cared, InHand
    <3>2. CASE f # g
      <4>1. f \in Published(p)
        BY <2>1, <2>5, <3>2
      <4>2. f \in OnWire(q)' => f \in OnWire(q)
        BY <2>1, <3>2 DEF Carries
      <4>3. \A a \in OnWire(p)' : a.type = "PUBREC" => a \in OnWire(p)
        BY <1>1, <1>2 DEF Carries
      <4> QED
        BY <2>3, <2>5, <4>1, <4>2, <4>3 DEF CareInv, q
    <3> QED
      BY <3>1, <3>2
  <2>6. \A x, y : Ahead(p, x, y)' /\ x.type = "PUBCOMP" /\ y.type = "PUBREC" => x.id # y.id
    BY <1>1, <1>2 DEF Carries, CareInv
  <2> QED
    BY <2>5, <2>6 DEF CareInv, q
<1> QED
  BY <1>3, <1>4, <1>5

(* The receiver answers a PUBLISH with a PUBREC only if its application has *)
(* not got the message, so before any PUBCOMP for it.                       *)
LEMMA ReceiverKeepsCare ==
    ASSUME TypeOK, NEW p \in Peers, SafeInv(p), OnceInv(p), CareInv(p),
           TakesPublish(p) \/ TakesPubrel(p)
    PROVE  CareInv(p)'
<1> DEFINE q == Other(p)
           none == {}
<1> HIDE DEF q
<1>1. /\ Published(p)' = Published(p) /\ Carries(q, none)
      /\ \A f : Cared(p, f)' <=> Cared(p, f)
  BY DEF TakesPublish, TakesPubrel, SenderSame, Cared, InHand, GivenUp, q
<1>2. CASE TakesPublish(p)
  <2>1. PICK h \in OnWire(q) :
          /\ h.type = "PUBLISH"
          /\ \/ h.arg = 2 /\ Carries(p, {Frame("PUBREC", h.id, 0)})
             \/ h.arg # 2 /\ Carries(p, Puback(h))
    BY <1>2 DEF TakesPublish, q
  <2>2. h \in Published(p)
    BY <2>1 DEF SafeInv, Genuine, q
  <2>3. CASE h.arg # 2 /\ Carries(p, Puback(h))
    <3> DEFINE B == Puback(h)
    <3>1. \A x \in B : x.type = "PUBACK"
      BY DEF Puback, Frame
    <3> HIDE DEF B
    <3>2. Carries(p, B)
      BY <2>3 DEF B
    <3>3. \A f \in Published(p) : f \notin none
      OBVIOUS
    <3> HIDE DEF none
    <3> QED
      BY <1>1, <3>1, <3>2, <3>3, CareKept DEF q
  <2>4. CASE h.arg = 2 /\ Carries(p, {Frame("PUBREC", h.id, 0)})
    <3> DEFINE B == {Frame("PUBREC", h.id, 0)}
    <3>1. /\ Carries(p, B) /\ \A f \in Published(p) : f \notin none
          /\ \A x \in B : x.type = "PUBREC" /\ x.id = h.id
      BY <2>4 DEF Frame
    <3> HIDE DEF B, none
    <3>2. Cared(p, h)'
      BY <1>1, <2>2, <2>4 DEF CareInv, q
    <3>3. \A f \in Published(p) : f.id = h.id => f = h
      BY <2>2 DEF SafeInv, Identified
    <3>4. ASSUME NEW x \in OnWire(p), x.type = "PUBCOMP", x.id = h.id
          PROVE  FALSE
      <4>1. PICK f : Answers(p, x, 2, f) /\ f \in Got(q)
        BY <3>4 DEF SafeInv, Acknowledged, AcknowledgesHeld, q
      <4>2. f = h
        BY <3>3, <3>4, <4>1 DEF Answers
      <4> QED
        BY <2>2, <2>4, <4>1, <4>2 DEF OnceInv, Once, q
    <3>5. \A x \in OnWire(p) \cup B, y \in B :
              x.type = "PUBCOMP" /\ y.type = "PUBREC" => x.id # y.id
      BY <3>1, <3>4
    <3> QED
      BY <1>1, <3>1, <3>2, <3>3, <3>5, CareKept DEF q
  <2> QED
    BY <2>1, <2>3, <2>4
<1>3. CASE TakesPubrel(p)
  <2>1. PICK id : Carries(p, {Frame("PUBCOMP", id, 0)})
    BY <1>3 DEF TakesPubrel
  <2> DEFINE B == {Frame("PUBCOMP", id, 0)}
  <2>2. /\ Carries(p, B) /\ \A f \in Published(p) : f \notin none
        /\ \A x \in B : x.type # "PUBREC"
    BY <2>1 DEF Frame
  <2> HIDE DEF B, none
  <2> QED
    BY <1>1, <2>2, CareKept DEF q
<1> QED
  BY <1>2, <1>3

(* What an acknowledgement takes from outgoing, and the PUBREL a PUBREC     *)
(* puts there.                                                              *)
LEMMA AckedHand ==
    ASSUME NEW p, SafeInv(p), TakesAck(p)
    PROVE  \E a \in OnWire(p) :
             /\ a.type \in Acks \cup {"SUBACK", "UNSUBACK"}
             /\ \A y \in OnWire(p)' : Ahead(p, a, y)
             /\ AcknowledgesHeld(p, a)
             /\ \A f \in Published(p) : f.id # a.id \/ a.type \notin Acks =>
                  /\ f \in Outgoing(p)' <=> f \in Outgoing(p)
                  /\ Pubrel(f) \in Outgoing(p)' <=> Pubrel(f) \in Outgoing(p)
             /\ \A f \in Published(p) : f.id = a.id /\ a.type = "PUBREC" =>
                  f \notin Outgoing(p)' /\ Pubrel(f) \in Outgoing(p)'
             /\ \A f \in Published(p) : f.id = a.id /\ a.type = "PUBACK" =>
                  /\ f \notin Outgoing(p)'
                  /\ Pubrel(f) \in Outgoing(p)' <=> Pubrel(f) \in Outgoing(p)
             /\ \A f \in Published(p) : f.id = a.id /\ a.type = "PUBCOMP" =>
                  /\ Pubrel(f) \notin Outgoing(p)'
                  /\ f \in Outgoing(p)' <=> f \in Outgoing(p)
<1>1. PICK a \in OnWire(p) :
        LET rest == {x \in Outgoing(p) : ~(x.type = RequestType(a.type) /\ x.id = a.id)}
            pubrel == Frame("PUBREL", a.id, 0)
        IN  /\ a.type \in Acks \cup {"SUBACK", "UNSUBACK"}
            /\ \A y \in OnWire(p)' : Ahead(p, a, y)
            /\ \/ a.type = "PUBREC" /\ Outgoing(p)' = rest \cup {pubrel}
               \/ a.type # "PUBREC" /\ Outgoing(p)' = rest
  BY DEF TakesAck
<1>2. /\ AcknowledgesHeld(p, a)
      /\ \A f \in Published(p) : f.type = "PUBLISH"
  BY DEF SafeInv, Acknowledged, Identified
<1> DEFINE pubrel == Frame("PUBREL", a.id, 0)
<1>3. \A f : (Pubrel(f) = pubrel <=> f.id = a.id) /\ Pubrel(f).type = "PUBREL" /\ Pubrel(f).id = f.id
  BY DEF Pubrel, Frame
<1>4. pubrel.type = "PUBREL"
  BY DEF Frame
<1> HIDE DEF pubrel
<1>5. CASE a.type = "PUBREC"
  <2>1. /\ pubrel \in Outgoing(p)'
        /\ \A x : x # pubrel => (x \in Outgoing(p)' <=>
                x \in Outgoing(p) /\ ~(x.type = "PUBLISH" /\ x.id = a.id))
    BY <1>1, <1>5 DEF pubrel, RequestType
  <2> QED
    BY <1>1, <1>2, <1>3, <1>4, <1>5, <2>1 DEF Acks
<1>6. CASE a.type = "PUBACK"
  <2>1. \A x : x \in Outgoing(p)' <=> x \in Outgoing(p) /\ ~(x.type = "PUBLISH" /\ x.id = a.id)
    BY <1>1, <1>6 DEF RequestType
  <2> QED
    BY <1>1, <1>2, <1>3, <1>4, <1>6, <2>1 DEF Acks
<1>7. CASE a.type = "PUBCOMP"
  <2>1. \A x : x \in Outgoing(p)' <=> x \in Outgoing(p) /\ ~(x.type = "PUBREL" /\ x.id = a.id)
    BY <1>1, <1>7 DEF RequestType
  <2> QED
    BY <1>1, <1>2, <1>3, <1>4, <1>7, <2>1 DEF Acks
<1>8. CASE a.type \in {"SUBACK", "UNSUBACK"}
  <2>1. \A x : x.type \in {"PUBLISH", "PUBREL"} => (x \in Outgoing(p)' <=> x \in Outgoing(p))
    BY <1>1, <1>8 DEF RequestType
  <2> QED
    BY <1>1, <1>2, <1>3, <1>4, <1>8, <2>1 DEF Acks
<1> QED
  BY <1>1, <1>5, <1>6, <1>7, <1>8 DEF Acks

(* When the sender handles an acknowledgement, a message of QoS 2 stays     *)
(* cared for, or this was its PUBCOMP, behind which nothing of it follows.  *)
LEMMA AckKeepsCare ==
    ASSUME TypeOK, NEW p \in Peers, SafeInv(p), OnceInv(p), CareInv(p), TakesAck(p)
    PROVE  CareInv(p)'
<1> DEFINE q == Other(p)
           B == {}
<1> HIDE DEF q
<1>1. PICK a \in OnWire(p) :
             /\ a.type \in Acks \cup {"SUBACK", "UNSUBACK"}
             /\ \A y \in OnWire(p)' : Ahead(p, a, y)
             /\ AcknowledgesHeld(p, a)
             /\ \A f \in Published(p) : f.id # a.id \/ a.type \notin Acks =>
                  /\ f \in Outgoing(p)' <=> f \in Outgoing(p)
                  /\ Pubrel(f) \in Outgoing(p)' <=> Pubrel(f) \in Outgoing(p)
             /\ \A f \in Published(p) : f.id = a.id /\ a.type = "PUBREC" =>
                  f \notin Outgoing(p)' /\ Pubrel(f) \in Outgoing(p)'
  BY AckedHand
<1>2. /\ Published(p)' = Published(p) /\ Abandoned(p)' = Abandoned(p)
      /\ Carries(p, B) /\ SameReceived(q)
      /\ \/ Carries(q, {})
         \/ \E id : Carries(q, {Frame("PUBREL", id, 0)})
  BY DEF TakesAck, ReceiverSame, q
<1>3. PICK F : Carries(q, F) /\ \A x \in F : x.type # "PUBLISH"
  <2>1. CASE Carries(q, {})
    BY <2>1
  <2>2. ASSUME NEW id, Carries(q, {Frame("PUBREL", id, 0)})
        PROVE  \E F : Carries(q, F) /\ \A x \in F : x.type # "PUBLISH"
    <3> DEFINE F == {Frame("PUBREL", id, 0)}
    <3>1. Carries(q, F) /\ \A x \in F : x.type # "PUBLISH"
      BY <2>2 DEF Frame
    <3> HIDE DEF F
    <3> QED
      BY <3>1
  <2> QED
    BY <1>2, <2>1, <2>2
<1>4. \A f \in Published(p) : f.type = "PUBLISH"
  BY DEF SafeInv, Identified
<1>5. ASSUME NEW f \in Published(p), f.arg = 2
      PROVE  \/ Cared(p, f)' \/ ~Cared(p, f)
             \/ /\ f \notin OnWire(q)'
                /\ \A b \in OnWire(p)' : ~(b.type = "PUBREC" /\ b.id = f.id)
  <2>1. CASE f.id # a.id \/ a.type \notin Acks
    BY <1>1, <1>2, <2>1 DEF Cared, InHand, GivenUp
  <2>2. CASE f.id = a.id /\ a.type = "PUBREC"
    BY <1>1, <2>2 DEF Cared, InHand
  <2>3. CASE f.id = a.id /\ a.type = "PUBACK"
    <3>1. PICK g : Answers(p, a, 1, g)
      BY <1>1, <2>3 DEF AcknowledgesHeld
    <3>2. g = f
      BY <2>3, <3>1 DEF SafeInv, Identified, Answers
    <3> QED
      BY <1>5, <3>1, <3>2 DEF Answers
  <2>4. CASE f.id = a.id /\ a.type = "PUBCOMP"
    <3>1. PICK g : Answers(p, a, 2, g) /\ g \in Got(q)
      BY <1>1, <2>4 DEF AcknowledgesHeld, q
    <3>2. g = f
      BY <2>4, <3>1 DEF SafeInv, Identified, Answers
    <3>3. f \notin OnWire(q)
      BY <1>5, <3>1, <3>2 DEF OnceInv, Once, q
    <3>4. f \notin OnWire(q)'
      BY <1>3, <1>4, <3>3 DEF Carries
    <3>5. \A b \in OnWire(p)' : ~(b.type = "PUBREC" /\ b.id = f.id)
      BY <1>1, <2>4 DEF CareInv
    <3> QED
      BY <3>4, <3>5
  <2> QED
    BY <1>1, <2>1, <2>2, <2>3, <2>4 DEF Acks
<1>6. \A f \in Published(p) : f \notin F
  BY <1>3, <1>4
<1>7. /\ \A b \in B : b.type # "PUBREC"
      /\ \A x \in OnWire(p) \cup B, y \in B :
            x.type = "PUBCOMP" /\ y.type = "PUBREC" => x.id # y.id
  OBVIOUS
<1> HIDE DEF B
<1> QED
  BY <1>2, <1>3, <1>5, <1>6, <1>7, CareKept DEF q

-----------------------------------------------------------------------------
(* The client's publications implement MqttDelivery.                       *)

\* What the abstract specification sees: pending, given up and received.
PendingMessages == {f \in Published(Client) : InHand(Client, f) /\ ~GivenUp(Client, f)}

GivenUpMessages == {f \in Published(Client) : GivenUp(Client, f)}

ReceivedCopies == [f \in Publications(0..2) |-> Count(Server, f)]

(* The steps of the instance in these terms.                                *)
LEMMA DeliveryTerms ==
    /\ \A m : /\ m \notin Published(Client)
              /\ Published(Client)' = Published(Client) \cup {m}
              /\ \/ PendingMessages' = PendingMessages \cup {m}
                 \/ m \notin Publications({1, 2}) /\ PendingMessages' = PendingMessages
              /\ GivenUpMessages' = GivenUpMessages /\ ReceivedCopies' = ReceivedCopies
              => Delivery!Publish(m)
    /\ \A m : /\ m \in Published(Client)
              /\ m \in Publications({2}) => ReceivedCopies[m] = 0
              /\ ReceivedCopies' = [ReceivedCopies EXCEPT ![m] = @ + 1]
              /\ Published(Client)' = Published(Client)
              /\ PendingMessages' = PendingMessages /\ GivenUpMessages' = GivenUpMessages
              => Delivery!Receive(m)
    /\ \A m : /\ m \in PendingMessages /\ ReceivedCopies[m] > 0
              /\ PendingMessages' = PendingMessages \ {m}
              /\ Published(Client)' = Published(Client)
              /\ GivenUpMessages' = GivenUpMessages /\ ReceivedCopies' = ReceivedCopies
              => Delivery!Complete(m)
    /\ \A m : /\ m \in PendingMessages
              /\ PendingMessages' = PendingMessages \ {m}
              /\ GivenUpMessages' = GivenUpMessages \cup {m}
              /\ Published(Client)' = Published(Client) /\ ReceivedCopies' = ReceivedCopies
              => Delivery!GiveUp(m)
    /\ /\ Published(Client)' = Published(Client) /\ PendingMessages' = PendingMessages
       /\ GivenUpMessages' = GivenUpMessages /\ ReceivedCopies' = ReceivedCopies
       => UNCHANGED Delivery!vars
  BY DEF Delivery!Publish, Delivery!Receive, Delivery!Complete, Delivery!GiveUp, Delivery!vars,
         PendingMessages, GivenUpMessages, ReceivedCopies, InHand, GivenUp, IsGivenUp, Count

(* The other side of the client.                                            *)
LEMMA OfClient == Client \in Peers /\ Server \in Peers /\ Other(Client) = Server
  BY DEF Peers, Other

(* The publications of the client are messages of the abstract              *)
(* specification; those of QoS 2 it delivers once.                          *)
LEMMA PublicationSets ==
    ASSUME TypeOK, Identified(Client)
    PROVE  /\ Published(Client) \subseteq Publications(0..2)
           /\ \A f \in Publications(0..2) :
                /\ f.type = "PUBLISH" /\ f.arg \in 0..2
                /\ f.arg = 0 => f \notin Publications({1, 2})
                /\ f \in Publications({2}) => f.arg = 2
<1>1. Published(Client) \subseteq FrameType
  BY OfClient, QueueTyped DEF TypeOK, Published
<1>2. ASSUME NEW f \in Published(Client)
      PROVE  f \in Publications(0..2)
  <2>1. f \in FrameType /\ f.type = "PUBLISH" /\ f.id \in PacketIds /\ f.arg \in QosLevels
    BY <1>1 DEF Identified
  <2>2. f.arg \in QosLevels \cap (0..2)
    BY <2>1, AppAssumption
  <2> QED
    BY <2>1, <2>2 DEF FrameType, Publications
<1>3. \A f \in Publications(0..2) :
                /\ f.type = "PUBLISH" /\ f.arg \in 0..2
                /\ f.arg = 0 => f \notin Publications({1, 2})
                /\ f \in Publications({2}) => f.arg = 2
  BY DEF Publications
<1> QED
  BY <1>2, <1>3

(* Steps that change nothing the abstract specification sees.               *)
LEMMA DeliveryStutters ==
    ASSUME Published(Client)' = Published(Client),
           \A f \in Published(Client) :
             /\ InHand(Client, f)' /\ ~GivenUp(Client, f)' <=> InHand(Client, f) /\ ~GivenUp(Client, f)
             /\ GivenUp(Client, f)' <=> GivenUp(Client, f),
           \A f \in Publications(0..2) : Count(Server, f)' = Count(Server, f)
    PROVE  UNCHANGED Delivery!vars
<1>1. UNCHANGED <<PendingMessages, GivenUpMessages>>
  BY DEF PendingMessages, GivenUpMessages
<1>2. UNCHANGED ReceivedCopies
  BY DEF ReceivedCopies
<1> QED
  BY <1>1, <1>2, DeliveryTerms

(* The client submits a publication.                                        *)
LEMMA DeliveryPublishes ==
    ASSUME NEW f \in Publications(0..2), f \notin Published(Client),
           Published(Client)' = Published(Client) \cup {f},
           \A g \in Published(Client) :
             /\ InHand(Client, g)' /\ ~GivenUp(Client, g)' <=> InHand(Client, g) /\ ~GivenUp(Client, g)
             /\ GivenUp(Client, g)' <=> GivenUp(Client, g),
           ~GivenUp(Client, f)',
           InHand(Client, f)' \/ f \notin Publications({1, 2}),
           \A g \in Publications(0..2) : Count(Server, g)' = Count(Server, g)
    PROVE  Delivery!Publish(f)
<1>1. /\ UNCHANGED GivenUpMessages
      /\ \/ PendingMessages' = PendingMessages \cup {f}
         \/ f \notin Publications({1, 2}) /\ UNCHANGED PendingMessages
  BY DEF PendingMessages, GivenUpMessages
<1>2. UNCHANGED ReceivedCopies
  BY DEF ReceivedCopies
<1> QED
  BY <1>1, <1>2, DeliveryTerms

(* The server receives a publication.                                       *)
LEMMA DeliveryReceives ==
    ASSUME NEW f \in Publications(0..2), f \in Published(Client),
           Published(Client)' = Published(Client),
           f \in Publications({2}) => Count(Server, f) = 0,
           \A g : InHand(Client, g)' <=> InHand(Client, g),
           \A g : GivenUp(Client, g)' <=> GivenUp(Client, g),
           Count(Server, f)' = Count(Server, f) + 1,
           \A g \in Publications(0..2) : g # f => Count(Server, g)' = Count(Server, g)
    PROVE  Delivery!Receive(f)
<1>1. UNCHANGED <<PendingMessages, GivenUpMessages>>
  BY DEF PendingMessages, GivenUpMessages
<1>2. ReceivedCopies' = [ReceivedCopies EXCEPT ![f] = @ + 1] /\ ReceivedCopies[f] = Count(Server, f)
  BY DEF ReceivedCopies
<1> QED
  BY <1>1, <1>2, DeliveryTerms

(* A message leaves the client's hands because the server has it.           *)
LEMMA DeliveryCompletes ==
    ASSUME NEW f \in Publications(0..2), f \in Published(Client),
           Published(Client)' = Published(Client),
           InHand(Client, f), ~GivenUp(Client, f), ~InHand(Client, f)', Count(Server, f) > 0,
           \A g \in Published(Client) : g # f => (InHand(Client, g)' <=> InHand(Client, g)),
           \A g : GivenUp(Client, g)' <=> GivenUp(Client, g),
           \A g \in Publications(0..2) : Count(Server, g)' = Count(Server, g)
    PROVE  Delivery!Complete(f)
<1>1. UNCHANGED GivenUpMessages /\ PendingMessages' = PendingMessages \ {f} /\ f \in PendingMessages
  BY DEF PendingMessages, GivenUpMessages
<1>2. UNCHANGED ReceivedCopies /\ ReceivedCopies[f] = Count(Server, f)
  BY DEF ReceivedCopies
<1> QED
  BY <1>1, <1>2, DeliveryTerms

(* The client gives a message up.                                           *)
LEMMA DeliveryGivesUp ==
    ASSUME NEW f \in Publications(0..2), f \in Published(Client),
           Published(Client)' = Published(Client),
           InHand(Client, f), ~GivenUp(Client, f), GivenUp(Client, f)',
           \A g \in Published(Client) : g # f =>
             /\ InHand(Client, g)' <=> InHand(Client, g)
             /\ GivenUp(Client, g)' <=> GivenUp(Client, g),
           \A g \in Publications(0..2) : Count(Server, g)' = Count(Server, g)
    PROVE  Delivery!GiveUp(f)
<1>1. /\ PendingMessages' = PendingMessages \ {f} /\ f \in PendingMessages
      /\ GivenUpMessages' = GivenUpMessages \cup {f}
  BY DEF PendingMessages, GivenUpMessages
<1>2. UNCHANGED ReceivedCopies
  BY DEF ReceivedCopies
<1> QED
  BY <1>1, <1>2, DeliveryTerms

(* The sender's steps as steps of the abstract specification.               *)
LEMMA DeliverySenderStep ==
    ASSUME TypeOK, SafeInv(Client), OnceInv(Client), CareInv(Client),
           Idle(Client) \/ Submits(Client) \/ Resends(Client) \/ TakesAck(Client)
    PROVE  [Delivery!Next]_(Delivery!vars)
<1> DEFINE p == Client
           q == Server
<1>1. \A f \in Publications(0..2) : Count(q, f)' = Count(q, f)
  <2>1. SameReceived(q)
    BY OfClient DEF Idle, Submits, Resends, TakesAck, ReceiverSame
  <2>2. \A f \in Publications(0..2) : f.type = "PUBLISH"
    BY DEF Publications
  <2> QED
    BY <2>1, <2>2 DEF SameReceived
<1>2. /\ Published(p) \subseteq Publications(0..2)
      /\ \A f \in Published(p) : f.type = "PUBLISH"
  BY PublicationSets DEF SafeInv, Identified
<1>3. \A m \in Publications(0..2) :
        Delivery!Publish(m) \/ Delivery!Complete(m) \/ Delivery!GiveUp(m) => Delivery!Next
  BY DEF Delivery!Next
<1>4. CASE Idle(p)
  <2>1. /\ Published(p)' = Published(p)
        /\ \A f : /\ InHand(p, f)' <=> InHand(p, f)
                  /\ GivenUp(p, f)' <=> GivenUp(p, f)
    BY <1>4 DEF Idle, SenderSame, InHand, GivenUp
  <2> QED
    BY <1>1, <2>1, DeliveryStutters
<1>5. CASE Submits(p)
  <2>1. PICK g \in FrameType :
          /\ \/ /\ g.type = "PUBLISH" /\ g.id \in PacketIds /\ g.arg \in QosLevels
                /\ \A h \in Published(p) : h.id # g.id
                /\ Published(p)' = Published(p) \cup {g}
             \/ g.type \in {"SUBSCRIBE", "UNSUBSCRIBE"} /\ Published(p)' = Published(p)
          /\ \/ Outgoing(p)' = Outgoing(p) \cup {g}
             \/ g.type = "PUBLISH" /\ g.arg = 0 /\ Outgoing(p)' = Outgoing(p)
    BY <1>5 DEF Submits
  <2>2. Abandoned(p)' = Abandoned(p)
    BY <1>5 DEF Submits
  <2>3. \A f \in Published(p) : f # g =>
          /\ InHand(p, f)' <=> InHand(p, f)
          /\ GivenUp(p, f)' <=> GivenUp(p, f)
    <3>1. \A f : Pubrel(f) # g
      BY <2>1, PubrelOf
    <3> QED
      BY <2>1, <2>2, <3>1 DEF InHand, GivenUp
  <2>4. CASE g.type \in {"SUBSCRIBE", "UNSUBSCRIBE"}
    <3>1. g \notin Published(p) /\ Published(p)' = Published(p)
      BY <1>2, <2>1, <2>4
    <3> QED
      BY <1>1, <2>3, <3>1, DeliveryStutters
  <2>5. CASE g.type = "PUBLISH"
    <3>1. g \notin Published(p) /\ Published(p)' = Published(p) \cup {g}
      BY <2>1, <2>5
    <3>2. g \in Publications(0..2) /\ (g.arg = 0 => g \notin Publications({1, 2}))
      <4>1. g.arg \in QosLevels \cap (0..2)
        BY <2>1, <2>5, AppAssumption
      <4> QED
        BY <2>1, <2>5, <4>1 DEF FrameType, Publications
    <3>3. ~GivenUp(p, g)'
      BY <2>1, <2>2, <2>5, UnpublishedUnknown DEF GivenUp
    <3>4. InHand(p, g)' \/ g \notin Publications({1, 2})
      BY <2>1, <3>2 DEF InHand
    <3> HIDE DEF p, q
    <3>5. \A f \in Published(p) : f # g
      BY <3>1
    <3>6. Delivery!Publish(g)
      BY <1>1, <2>3, <3>1, <3>2, <3>3, <3>4, <3>5, DeliveryPublishes DEF p, q
    <3> QED
      BY <1>3, <3>2, <3>6
  <2> QED
    BY <2>1, <2>4, <2>5
<1>6. CASE Resends(p)
  <2>1. PICK H : /\ H = {} \/ \E h : H = {h}
                 /\ Outgoing(p) = Outgoing(p)' \cup H
                 /\ Abandoned(p)' = Abandoned(p) \cup H
    BY <1>6 DEF Resends
  <2>2. Published(p)' = Published(p)
    BY <1>6 DEF Resends
  <2>3. ASSUME NEW f \in Published(p), f \notin H, Pubrel(f) \notin H
        PROVE  /\ InHand(p, f)' <=> InHand(p, f)
               /\ GivenUp(p, f)' <=> GivenUp(p, f)
    BY <2>1, <2>3 DEF InHand, GivenUp
  <2>4. ASSUME NEW f \in Published(p), f \in H \/ Pubrel(f) \in H
        PROVE  InHand(p, f) /\ GivenUp(p, f)'
    BY <2>1, <2>4 DEF InHand, GivenUp
  <2>5. ASSUME NEW f \in Published(p), GivenUp(p, f)
        PROVE  GivenUp(p, f)'
    BY <2>1, <2>5 DEF GivenUp
  <2>6. CASE \E f \in Published(p) : (f \in H \/ Pubrel(f) \in H) /\ ~GivenUp(p, f)
    <3>1. PICK f \in Published(p) : (f \in H \/ Pubrel(f) \in H) /\ ~GivenUp(p, f)
      BY <2>6
    <3>2. \A g \in Published(p) : g # f => g \notin H /\ Pubrel(g) \notin H
      <4> SUFFICES ASSUME NEW g \in Published(p), g # f
                   PROVE  g \notin H /\ Pubrel(g) \notin H
        OBVIOUS
      <4>1. f.id # g.id
        BY <3>1 DEF SafeInv, Identified
      <4>2. f # Pubrel(g) /\ g # Pubrel(f) /\ Pubrel(f) # Pubrel(g)
        BY <1>2, <4>1, PubrelOf
      <4> QED
        BY <2>1, <3>1, <4>2
    <3>3. Delivery!GiveUp(f)
      BY <1>1, <1>2, <2>2, <2>3, <2>4, <3>1, <3>2, DeliveryGivesUp
    <3> QED
      BY <1>2, <1>3, <3>1, <3>3
  <2>7. CASE \A f \in Published(p) : f \in H \/ Pubrel(f) \in H => GivenUp(p, f)
    BY <1>1, <2>2, <2>3, <2>4, <2>5, <2>7, DeliveryStutters
  <2> QED
    BY <2>6, <2>7
<1>7. CASE TakesAck(p)
  <2>1. PICK a \in OnWire(p) :
             /\ a.type \in Acks \cup {"SUBACK", "UNSUBACK"}
             /\ AcknowledgesHeld(p, a)
             /\ \A f \in Published(p) : f.id # a.id \/ a.type \notin Acks =>
                  /\ f \in Outgoing(p)' <=> f \in Outgoing(p)
                  /\ Pubrel(f) \in Outgoing(p)' <=> Pubrel(f) \in Outgoing(p)
             /\ \A f \in Published(p) : f.id = a.id /\ a.type = "PUBREC" =>
                  f \notin Outgoing(p)' /\ Pubrel(f) \in Outgoing(p)'
             /\ \A f \in Published(p) : f.id = a.id /\ a.type = "PUBACK" =>
                  /\ f \notin Outgoing(p)'
                  /\ Pubrel(f) \in Outgoing(p)' <=> Pubrel(f) \in Outgoing(p)
             /\ \A f \in Published(p) : f.id = a.id /\ a.type = "PUBCOMP" =>
                  /\ Pubrel(f) \notin Outgoing(p)'
                  /\ f \in Outgoing(p)' <=> f \in Outgoing(p)
    BY <1>7, AckedHand
  <2>2. /\ Published(p)' = Published(p)
        /\ \A f : GivenUp(p, f)' <=> GivenUp(p, f)
    BY <1>7 DEF TakesAck, GivenUp
  <2>3. \A f \in Published(p) : f.id # a.id \/ a.type \notin Acks =>
          (InHand(p, f)' <=> InHand(p, f))
    BY <2>1 DEF InHand
  <2>4. CASE a.type \notin Acks
    BY <1>1, <2>2, <2>3, <2>4, DeliveryStutters
  <2>5. CASE a.type = "PUBREC"
    <3>1. PICK f : Answers(p, a, 2, f)
      BY <2>1, <2>5 DEF AcknowledgesHeld
    <3>2. f \in Published(p) /\ f.id = a.id /\ Cared(p, f)
      BY <2>5, <3>1 DEF Answers, CareInv
    <3>3. InHand(p, f)'
      BY <2>1, <2>5, <3>2 DEF InHand
    <3>4. \A g \in Published(p) : g # f => (InHand(p, g)' <=> InHand(p, g))
      BY <2>3, <3>2 DEF SafeInv, Identified
    <3>5. \A g \in Published(p) :
             InHand(p, g)' /\ ~GivenUp(p, g)' <=> InHand(p, g) /\ ~GivenUp(p, g)
      BY <2>2, <3>2, <3>3, <3>4 DEF Cared
    <3> QED
      BY <1>1, <2>2, <3>5, DeliveryStutters
  <2>6. CASE a.type \in {"PUBACK", "PUBCOMP"}
    <3>1. PICK f : /\ f \in Published(p) /\ f.id = a.id /\ f \in Got(q)
                   /\ a.type = "PUBACK" => f.arg = 1
                   /\ a.type = "PUBCOMP" => f.arg = 2
      BY <2>1, <2>6, OfClient DEF AcknowledgesHeld, Answers
    <3>2. \A g \in Published(p) : g # f => (InHand(p, g)' <=> InHand(p, g))
      BY <2>3, <3>1 DEF SafeInv, Identified
    <3>3. Count(q, f) > 0
      BY <3>1, OfClient, ReceivedTyped
    <3>4. ~InHand(p, f)'
      <4>1. CASE a.type = "PUBACK"
        <5>1. f \notin Outgoing(p)' /\ (Pubrel(f) \in Outgoing(p)' => Pubrel(f) \in Outgoing(p))
          BY <2>1, <3>1, <4>1
        <5>2. Pubrel(f) \notin Outgoing(p)
          <6> SUFFICES ASSUME Pubrel(f) \in Outgoing(p) PROVE FALSE
            OBVIOUS
          <6>1. PICK g \in Published(p) : g.arg = 2 /\ Pubrel(f) = Pubrel(g)
            BY PubrelOf DEF SafeInv, Released, ReleasesHeld
          <6>2. f = g
            BY <3>1, <6>1, PubrelOf DEF SafeInv, Identified
          <6> QED
            BY <3>1, <4>1, <6>1, <6>2
        <5> QED
          BY <5>1, <5>2 DEF InHand
      <4>2. CASE a.type = "PUBCOMP"
        <5>1. Pubrel(f) \notin Outgoing(p)' /\ (f \in Outgoing(p)' => f \in Outgoing(p))
          BY <2>1, <3>1, <4>2
        <5>2. f \notin Outgoing(p)
          BY <3>1, <4>2, OfClient DEF OnceInv, Once
        <5> QED
          BY <5>1, <5>2 DEF InHand
      <4> QED
        BY <2>6, <4>1, <4>2
    <3>5. CASE InHand(p, f) /\ ~GivenUp(p, f)
      <4>1. Delivery!Complete(f)
        BY <1>1, <1>2, <2>2, <3>1, <3>2, <3>3, <3>4, <3>5, DeliveryCompletes
      <4> QED
        BY <1>2, <1>3, <3>1, <4>1
    <3>6. CASE ~InHand(p, f) \/ GivenUp(p, f)
      <4>1. \A g \in Published(p) :
              InHand(p, g)' /\ ~GivenUp(p, g)' <=> InHand(p, g) /\ ~GivenUp(p, g)
        BY <2>2, <3>2, <3>4, <3>6
      <4> QED
        BY <1>1, <2>2, <4>1, DeliveryStutters
    <3> QED
      BY <3>5, <3>6
  <2> QED
    BY <2>1, <2>4, <2>5, <2>6 DEF Acks
<1> QED
  BY <1>4, <1>5, <1>6, <1>7

(* The receiver's steps as steps of the abstract specification.             *)
LEMMA DeliveryReceiverStep ==
    ASSUME TypeOK, SafeInv(Client), OnceInv(Client), TakesPublish(Client) \/ TakesPubrel(Client)
    PROVE  [Delivery!Next]_(Delivery!vars)
<1> DEFINE p == Client
           q == Server
<1>1. /\ Published(p)' = Published(p)
      /\ \A f : /\ InHand(p, f)' <=> InHand(p, f)
                /\ GivenUp(p, f)' <=> GivenUp(p, f)
  BY DEF TakesPublish, TakesPubrel, SenderSame, InHand, GivenUp
<1>2. /\ Published(p) \subseteq Publications(0..2)
      /\ \A f \in Publications(0..2) : f.type = "PUBLISH" /\ (f \in Publications({2}) => f.arg = 2)
  BY PublicationSets DEF SafeInv
<1>3. \A m \in Publications(0..2) : Delivery!Receive(m) => Delivery!Next
  BY DEF Delivery!Next
<1>4. \A f : Count(q, f) \in Nat /\ (f \in Got(q) <=> Count(q, f) > 0)
  BY OfClient, ReceivedTyped
<1>5. CASE TakesPublish(p)
  <2>1. PICK h \in OnWire(q) :
          /\ h.type = "PUBLISH"
          /\ SameReceived(q) \/ (h.arg # 2 /\ Gains(q, <<h>>))
    BY <1>5, OfClient DEF TakesPublish
  <2>2. CASE SameReceived(q)
    <3>1. \A f \in Publications(0..2) : Count(q, f)' = Count(q, f)
      BY <1>2, <2>2 DEF SameReceived
    <3> QED
      BY <1>1, <3>1, DeliveryStutters
  <2>3. CASE h.arg # 2 /\ Gains(q, <<h>>)
    <3>1. h \in Published(p)
      BY <2>1, OfClient DEF SafeInv, Genuine
    <3>2. \A f : Count(q, f)' = Count(q, f) + (IF h = f THEN 1 ELSE 0)
      BY <2>3, CopiesSingle DEF Gains
    <3>3. /\ Count(q, h)' = Count(q, h) + 1
          /\ \A g : g # h => Count(q, g)' = Count(q, g)
      BY <1>4, <3>2
    <3>4. Delivery!Receive(h)
      BY <1>1, <1>2, <2>3, <3>1, <3>3, DeliveryReceives
    <3> QED
      BY <1>2, <1>3, <3>1, <3>4
  <2> QED
    BY <2>1, <2>2, <2>3
<1>6. CASE TakesPubrel(p)
  <2>1. PICK r \in OnWire(q) :
          /\ r.type = "PUBREL"
          /\ inbound'[q] = Without(inbound[q], Awaits(q, r.id))
          /\ Gains(q, Only(inbound[q], Awaits(q, r.id)))
    BY <1>6, OfClient DEF TakesPubrel
  <2>2. PICK taken \in Seq(FrameType) :
          /\ ToSet(taken) = {g \in Waiting(q) : g.id = r.id}
          /\ \A x, y : Before(taken, x, y) => Before(inbound[q], x, y)
          /\ Gains(q, taken)
    BY <2>1, OfClient, ReleasingWaits
  <2>3. PICK h \in Published(p) : h.arg = 2 /\ r = Pubrel(h)
    BY <2>1, OfClient DEF SafeInv, Released, ReleasesHeld
  <2>4. /\ \A g \in ToSet(taken) : g = h
        /\ h \in ToSet(taken) <=> h \in Waiting(q)
    <3>1. r.id = h.id
      BY <2>3, PubrelOf
    <3> QED
      BY <2>2, <3>1, OfClient DEF SafeInv, Genuine, Identified
  <2>5. \A g : g # h => Count(q, g)' = Count(q, g)
    <3>1. \A g : g # h => Copies(g, taken) = 0
      BY <2>4, CopiesNumber
    <3> QED
      BY <1>4, <2>2, <3>1 DEF Gains
  <2>6. CASE h \notin Waiting(q)
    <3>1. Copies(h, taken) = 0
      BY <2>4, <2>6, CopiesNumber
    <3>2. \A g \in Publications(0..2) : Count(q, g)' = Count(q, g)
      BY <1>4, <2>2, <2>5, <3>1 DEF Gains
    <3> QED
      BY <1>1, <3>2, DeliveryStutters
  <2>7. CASE h \in Waiting(q)
    <3>1. Copies(h, taken) = 1
      <4>1. ~Before(taken, h, h)
        BY <2>2, OfClient DEF OnceInv
      <4>2. Copies(h, taken) \in Nat /\ Copies(h, taken) > 0 /\ Copies(h, taken) <= 1
        BY <2>4, <2>7, <4>1, CopiesNumber
      <4> QED
        BY <4>2
    <3>2. Count(q, h) = 0
      <4>1. h \notin Got(q)
        BY <2>3, <2>7, OfClient DEF OnceInv, Once
      <4> QED
        BY <1>4, <4>1
    <3>3. Count(q, h)' = Count(q, h) + 1
      BY <2>2, <3>1 DEF Gains
    <3>4. Delivery!Receive(h)
      BY <1>1, <1>2, <2>3, <2>5, <3>2, <3>3, DeliveryReceives
    <3> QED
      BY <1>2, <1>3, <2>3, <3>4
  <2> QED
    BY <2>6, <2>7
<1> QED
  BY <1>5, <1>6

(* What the client's queues, resends and acknowledgements do to its         *)
(* publications is a step of the abstract specification of delivery, for    *)
(* any number of messages, losses and attempts: a message stays pending     *)
(* until the server has it or the client gives it up, and a message of      *)
(* QoS 2 is received once.                                                  *)
THEOREM DeliveryImplemented == Spec => ClientDelivers
<1> DEFINE C == CareInv(Client)
<1>1. Init => AllSafe /\ AllOnce /\ C /\ Delivery!Init
  <2> SUFFICES ASSUME Init PROVE AllSafe /\ AllOnce /\ C /\ Delivery!Init
    OBVIOUS
  <2>1. Published(Client) = {}
    BY InitEmpty, OfClient
  <2>2. C
    BY InitEmpty, NoEntry, OfClient DEF CareInv, Ahead
  <2>3. Delivery!Init
    <3>1. Received(Server) = <<>> /\ \A f : Copies(f, <<>>) = 0
      <4>1. <<>> \in Seq(FrameType) /\ \A f : f \notin ToSet(<<>>)
        BY NoEntry
      <4>2. \A f : Copies(f, <<>>) \in Nat /\ ~(Copies(f, <<>>) > 0)
        BY <4>1, CopiesNumber
      <4>3. \A f : Copies(f, <<>>) = 0
        BY <4>2
      <4> QED
        BY <4>3, InitEmpty, OfClient
    <3> QED
      BY <2>1, <3>1, OfClient DEF Delivery!Init
  <2> QED
    BY <2>2, <2>3, OnceInit
<1>2. TypeOK /\ AllSafe /\ AllOnce /\ [Next]_vars => AllSafe' /\ AllOnce'
  BY OnceStep
<1>3. TypeOK /\ AllSafe /\ AllOnce /\ C /\ [Next]_vars
        => C' /\ [Delivery!Next]_(Delivery!vars)
  <2> SUFFICES ASSUME TypeOK, AllSafe, AllOnce, C, [Next]_vars
               PROVE  C' /\ [Delivery!Next]_(Delivery!vars)
    OBVIOUS
  <2>1. SafeInv(Client) /\ OnceInv(Client) /\ Kind(Client)
    BY StepKinds, OfClient DEF AllSafe, AllOnce
  <2>2. CareInv(Client)'
    BY <2>1, OfClient, SenderKeepsCare, ReceiverKeepsCare, AckKeepsCare DEF Kind
  <2>3. [Delivery!Next]_(Delivery!vars)
    BY <2>1, DeliverySenderStep, DeliveryReceiverStep DEF Kind
  <2> QED
    BY <2>2, <2>3
<1>4. Delivery!Init /\ [][Delivery!Next]_(Delivery!vars) => ClientDelivers
  BY DEF ClientDelivers, Delivery!Spec
<1> QED
  BY <1>1, <1>2, <1>3, <1>4, TypeInit, TypeStep, PTL DEF Spec

=============================================================================
