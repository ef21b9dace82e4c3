------------------------- MODULE StreamStackProofs -------------------------
(***************************************************************************)
(* Theorems of StreamStack: type correctness, one queue at a time, and     *)
(* nothing that was accepted is lost, repeated or overtaken.               *)
(*                                                                         *)
(* Conserved is not inductive alone.  When the top queue is passed on, its *)
(* bytes join those of the base queue; that these are older is no matter,  *)
(* but a write that finds the top queue empty goes to the base stream at   *)
(* once, and one that finds it occupied goes behind it: OneQueue and       *)
(* Gated, which says why, make the step hold.                              *)
(***************************************************************************)
EXTENDS StreamStack, SequenceTheorems, TLAPS

TlsStates == {"none", "pending", "arrived", "finished"}

(* Below an unfinished handshake nothing waits.                             *)
Gated == ~Through => baseQueue = <<>>

IInv == StackTypeOK /\ OneQueue /\ Gated /\ Conserved

-----------------------------------------------------------------------------
(* Sequences of bytes.                                                     *)

Bytes == Seq(Nat)

(* The empty sequence changes nothing.                                      *)
LEMMA EmptyNeutral ==
    /\ <<>> \in Bytes /\ Len(<<>>) = 0
    /\ \A d \in Bytes : d \o <<>> = d /\ <<>> \o d = d
  BY EmptySeq, ConcatEmptySeq DEF Bytes

(* A sequence that is cut in two.                                           *)
LEMMA Cut ==
    ASSUME NEW d \in Bytes, NEW k \in 0..Len(d)
    PROVE  /\ SubSeq(d, 1, k) \in Bytes /\ Len(SubSeq(d, 1, k)) = k
           /\ SubSeq(d, k + 1, Len(d)) \in Bytes
           /\ SubSeq(d, 1, k) \o SubSeq(d, k + 1, Len(d)) = d
<1>1. Len(d) \in Nat /\ \A i \in 1..Len(d) : d[i] \in Nat
  BY DEF Bytes
<1>2. SubSeq(d, 1, k) \in Bytes /\ Len(SubSeq(d, 1, k)) = k
  <2>1. \A i \in 1..k : d[i] \in Nat
    BY <1>1
  <2>2. k \in Int
    BY <1>1
  <2>3. /\ SubSeq(d, 1, k) \in Seq(Nat)
        /\ Len(SubSeq(d, 1, k)) = IF 1 <= k THEN k - 1 + 1 ELSE 0
    BY <2>1, <2>2, SubSeqProperties
  <2> QED
    BY <2>3, <1>1 DEF Bytes
<1>3. SubSeq(d, k + 1, Len(d)) \in Bytes
  <2>1. \A i \in k + 1 .. Len(d) : d[i] \in Nat
    BY <1>1
  <2>2. k + 1 \in Int /\ Len(d) \in Int
    BY <1>1
  <2> QED
    BY <2>1, <2>2, SubSeqProperties DEF Bytes
<1>4. SubSeq(d, 1, k) \o SubSeq(d, k + 1, Len(d)) = d
  <2>1. /\ 1 \in 1 .. Len(d) + 1
        /\ k \in 1 - 1 .. Len(d)
        /\ Len(d) \in k .. Len(d)
    BY <1>1
  <2>2. SubSeq(d, 1, k) \o SubSeq(d, k + 1, Len(d)) = SubSeq(d, 1, Len(d))
    BY <2>1, ConcatAdjacentSubSeq DEF Bytes
  <2> QED
    BY <2>2, SubSeqFull DEF Bytes
<1> QED
  BY <1>2, <1>3, <1>4

(* Concatenations of bytes.                                                 *)
LEMMA Concat == \A a, b \in Bytes : a \o b \in Bytes /\ Len(a \o b) = Len(a) + Len(b)
  BY ConcatProperties DEF Bytes

(* Three and more pieces of bytes, whatever the brackets.                   *)
LEMMA Associative == \A a, b, c \in Bytes : (a \o b) \o c = a \o (b \o c)
  BY ConcatAssociative DEF Bytes

(* One use of that, named so that the provers are given no more of them     *)
(* than a proof asks for.                                                   *)
Rebracketed(a, b, c) == (a \o b) \o c = a \o (b \o c)

(* It holds of any three pieces,                                            *)
LEMMA Rebracketing == \A a, b, c \in Bytes : Rebracketed(a, b, c)
  BY Associative DEF Rebracketed

(* Four sequences in a row, however they are bracketed.                     *)
Bracketed(a, b, c, e) ==
    /\ (b \o c) \o e \in Bytes
    /\ ((a \o b) \o c) \o e = a \o ((b \o c) \o e)
    /\ (a \o b) \o (c \o e) = a \o ((b \o c) \o e)

(* and for four.                                                            *)
LEMMA Brackets == \A a, b, c, e \in Bytes : Bracketed(a, b, c, e)
<1> SUFFICES ASSUME NEW a \in Bytes, NEW b \in Bytes, NEW c \in Bytes, NEW e \in Bytes
             PROVE  Bracketed(a, b, c, e)
  OBVIOUS
<1>1. b \o c \in Bytes /\ (b \o c) \o e \in Bytes /\ c \o e \in Bytes
  BY Concat
<1>2. Rebracketed(a, b, c) /\ Rebracketed(b, c, e)
  BY Rebracketing
<1>3. Rebracketed(a, b \o c, e) /\ Rebracketed(a, b, c \o e)
  BY <1>1, Rebracketing
<1> QED
  BY <1>1, <1>2, <1>3 DEF Rebracketed, Bracketed

-----------------------------------------------------------------------------
(* What the socket and the base stream are given together.                 *)

(* SendFirst puts d and rest behind what the socket has, in that order.     *)
LEMMA SendKeeps ==
    ASSUME NEW d \in Bytes, NEW rest \in Bytes, NEW k \in 0..Len(d),
           socket \in Bytes, SendFirst(k, d, rest)
    PROVE  /\ socket' \in Bytes /\ baseQueue' \in Bytes
           /\ Len(socket') = Len(socket) + k
           /\ Len(baseQueue') = Len(d) - k + Len(rest)
           /\ socket' \o baseQueue' = socket \o (d \o rest)
<1> DEFINE first == SubSeq(d, 1, k)
           last == SubSeq(d, k + 1, Len(d))
<1>1. first \in Bytes /\ Len(first) = k /\ last \in Bytes /\ first \o last = d
  BY Cut
<1>8. Len(last) = Len(d) - k
  <2>1. Len(first \o last) = Len(first) + Len(last)
    BY <1>1, Concat
  <2>2. Len(first) \in Nat /\ Len(last) \in Nat
    BY <1>1 DEF Bytes
  <2> QED
    BY <1>1, <2>1, <2>2
<1>2. socket' = socket \o first /\ baseQueue' = last \o rest
  BY DEF SendFirst
<1> HIDE DEF first, last
<1>3. (socket \o first) \o (last \o rest) = socket \o ((first \o last) \o rest)
  <2>1. first \in Bytes /\ last \in Bytes
    BY <1>1
  <2>2. Bracketed(socket, first, last, rest)
    BY <2>1, Brackets
  <2> QED
    BY <2>2 DEF Bracketed
<1>5. socket' \in Bytes /\ Len(socket') = Len(socket) + k
  BY <1>1, <1>2, Concat
<1>6. baseQueue' \in Bytes /\ Len(baseQueue') = Len(d) - k + Len(rest)
  <2>1. last \o rest \in Bytes /\ Len(last \o rest) = Len(last) + Len(rest)
    BY <1>1, Concat
  <2> QED
    BY <1>2, <1>8, <2>1
<1>7. socket' \o baseQueue' = socket \o (d \o rest)
  BY <1>1, <1>2, <1>3
<1> QED
  BY <1>5, <1>6, <1>7

(* The types of the sequences, in the form the lemmas want them.            *)
LEMMA Typed ==
    ASSUME StackTypeOK
    PROVE  /\ topQueue \in Bytes /\ baseQueue \in Bytes /\ accepted \in Bytes
           /\ socket \in Bytes /\ received \in Bytes
           /\ Len(socket) \in Nat /\ Len(topQueue) \in Nat /\ Len(baseQueue) \in Nat
           /\ SocketSize \in Nat \ {0} /\ MaxOffered \in Nat
           /\ Len(socket) <= SocketSize
  BY StackAssumption DEF StackTypeOK, Bytes

(* The socket never takes more than it has room for, nor more than it gets. *)
LEMMA TakesFit ==
    ASSUME StackTypeOK, NEW n \in Nat, NEW k \in Takes(n)
    PROVE  k \in 0..n /\ Len(socket) + k <= SocketSize
<1>1. Len(socket) \in Nat /\ SocketSize \in Nat /\ Len(socket) <= SocketSize
  BY Typed
<1>2. CASE broken \/ n = 0 \/ SocketRoom = 0
  BY <1>1, <1>2 DEF Takes
<1>3. CASE ~(broken \/ n = 0 \/ SocketRoom = 0)
  <2>1. k \in 1 .. (IF n < SocketRoom THEN n ELSE SocketRoom)
    BY <1>3 DEF Takes
  <2> QED
    BY <1>1, <2>1 DEF SocketRoom
<1> QED
  BY <1>2, <1>3

(* Nothing is taken from nothing.                                           *)
LEMMA TakesNothing == \A k \in Takes(0) : k = 0
  BY DEF Takes

-----------------------------------------------------------------------------
(* What a call does to the stack, whoever makes it: everything that IInv    *)
(* says of the stack alone, when its content has grown by d.                *)
Grown(d) ==
    /\ topQueue' \in Bytes /\ baseQueue' \in Bytes /\ socket' \in Bytes
    /\ Len(socket') <= SocketSize
    /\ tls' \in TlsStates
    /\ Secure' \/ topQueue' = <<>>
    /\ OneQueue' /\ Gated'
    /\ (socket' \o baseQueue') \o topQueue' = ((socket \o baseQueue) \o topQueue) \o d

(* When the base stream alone moves the data, and there was none above.     *)
LEMMA BelowKeeps ==
    ASSUME IInv, NEW d \in Bytes, NEW e \in Bytes, NEW rest \in Bytes,
           NEW k \in 0..Len(e), Len(socket) + k <= SocketSize,
           SendFirst(k, e, rest), e \o rest = baseQueue \o d,
           topQueue = <<>>, topQueue' = <<>>, tls' \in TlsStates,
           ~Through' => baseQueue' = <<>>
    PROVE  Grown(d)
<1>1. StackTypeOK
  BY DEF IInv
<1>2. /\ socket' \in Bytes /\ baseQueue' \in Bytes
      /\ Len(socket') = Len(socket) + k
      /\ socket' \o baseQueue' = socket \o (e \o rest)
  <2>1. socket \in Bytes
    BY <1>1, Typed
  <2> QED
    BY <2>1, SendKeeps
<1>3. (socket' \o baseQueue') \o topQueue' = ((socket \o baseQueue) \o topQueue) \o d
  <2>1. socket \in Bytes /\ baseQueue \in Bytes
    BY <1>1, Typed
  <2>2. socket \o baseQueue \in Bytes /\ socket' \o baseQueue' \in Bytes
    BY <1>2, <2>1, Concat
  <2>3. socket \o (baseQueue \o d) = (socket \o baseQueue) \o d
    BY <2>1, Concat
  <2>4. (socket' \o baseQueue') \o <<>> = socket' \o baseQueue'
    BY <2>2, EmptyNeutral
  <2>5. (socket \o baseQueue) \o <<>> = socket \o baseQueue
    BY <2>2, EmptyNeutral
  <2> QED
    BY <1>2, <2>3, <2>4, <2>5
<1>4. OneQueue' /\ Gated'
  BY DEF OneQueue, Gated
<1>5. Len(socket') <= SocketSize
  BY <1>2
<1>6. topQueue' \in Bytes
  BY EmptyNeutral
<1> QED
  BY <1>2, <1>3, <1>4, <1>5, <1>6 DEF Grown

(* When new data only joins the queue of the top stream.                    *)
LEMMA AboveKeeps ==
    ASSUME IInv, NEW d \in Bytes,
           Secure', baseQueue = <<>>, topQueue' = topQueue \o d,
           baseQueue' = baseQueue, socket' = socket,
           tls' \in TlsStates
    PROVE  Grown(d)
<1>1. /\ topQueue \in Bytes /\ baseQueue \in Bytes /\ socket \in Bytes
      /\ Len(socket) <= SocketSize
  BY Typed DEF IInv
<1>2. topQueue' \in Bytes
  BY <1>1, Concat
<1>3. (socket \o baseQueue) \o (topQueue \o d) = ((socket \o baseQueue) \o topQueue) \o d
  <2>1. socket \o baseQueue \in Bytes
    BY <1>1, Concat
  <2>2. Rebracketed(socket \o baseQueue, topQueue, d)
    BY <1>1, <2>1, Rebracketing
  <2> QED
    BY <2>2 DEF Rebracketed
<1>4. OneQueue' /\ Gated'
  BY DEF OneQueue, Gated
<1> QED
  BY <1>1, <1>2, <1>3, <1>4 DEF Grown

-----------------------------------------------------------------------------
(* The operations that move data.                                          *)

(* stream_do_write hands d on: it is in the stack and counts as accepted,   *)
(* or neither.                                                              *)
LEMMA PassOnKeeps ==
    ASSUME IInv, NEW d \in Bytes, topQueue = <<>>, PassOn(d)
    PROVE  \/ Grown(d) /\ accepted' = accepted \o d
           \/ Grown(<<>>) /\ accepted' = accepted
<1>1. /\ baseQueue \in Bytes /\ socket \in Bytes /\ tls \in TlsStates
      /\ Len(socket) \in Nat /\ Len(socket) <= SocketSize /\ SocketSize \in Nat
  BY Typed DEF IInv, StackTypeOK, TlsStates
<1>2. StackTypeOK /\ Gated
  BY DEF IInv
<1>3. /\ tls' \in TlsStates
      /\ HandshakeDone => Through'
      /\ Secure => Secure'
  BY <1>1 DEF PassOn, TlsAfter, HandshakeDone, Through, Secure, TlsStates
<1>4. ~HandshakeDone => Secure /\ ~Through
  BY DEF HandshakeDone, Through, Secure
<1>5. Len(d) \in Nat /\ <<>> \in Bytes
  BY EmptyNeutral DEF Bytes
<1>6. CASE HandshakeDone /\ ~BaseFails /\ MustQueue(baseQueue)
  <2>1. SendFirst(0, baseQueue, d) /\ accepted' = accepted \o d /\ topQueue' = <<>>
    BY <1>6 DEF PassOn, ReportedAsNothing
  <2>2. 0 \in 0..Len(baseQueue) /\ Len(socket) + 0 <= SocketSize
    BY <1>1 DEF Bytes
  <2>3. Grown(d)
    BY <1>1, <1>3, <1>6, <2>1, <2>2, BelowKeeps
  <2> QED
    BY <2>1, <2>3
<1>7. CASE HandshakeDone /\ ~BaseFails /\ ~MustQueue(baseQueue)
  <2>1. baseQueue = <<>> /\ topQueue' = <<>> /\ accepted' = accepted \o d
    BY <1>7 DEF PassOn, MustQueue, ReportedAsNothing
  <2>2. PICK k \in Takes(Len(d)) :
          /\ socket' = socket \o SubSeq(d, 1, k)
          /\ baseQueue' = baseQueue \o SubSeq(d, k + 1, Len(d))
    BY <1>7 DEF PassOn, ReportedAsNothing
  <2>3. k \in 0..Len(d) /\ Len(socket) + k <= SocketSize
    BY <1>2, <1>5, TakesFit
  <2>4. SendFirst(k, d, <<>>)
    <3>1. SubSeq(d, k + 1, Len(d)) \in Bytes
      BY <2>3, Cut
    <3>2. <<>> \o SubSeq(d, k + 1, Len(d)) = SubSeq(d, k + 1, Len(d)) \o <<>>
      BY <3>1, EmptyNeutral
    <3> QED
      BY <2>1, <2>2, <3>2 DEF SendFirst
  <2>5. d \o <<>> = baseQueue \o d
    BY <2>1, EmptyNeutral
  <2>6. Grown(d)
    BY <1>3, <1>5, <1>7, <2>1, <2>3, <2>4, <2>5, BelowKeeps
  <2> QED
    BY <2>1, <2>6
<1>8. CASE ~HandshakeDone \/ ReportedAsNothing
  <2>1. /\ topQueue' = topQueue \o d /\ accepted' = accepted \o d
        /\ baseQueue' = baseQueue /\ socket' = socket
    BY <1>4, <1>8 DEF PassOn, ReportedAsNothing
  <2>2. Secure' /\ baseQueue = <<>>
    BY <1>2, <1>3, <1>4, <1>8 DEF Gated, ReportedAsNothing, BaseFails
  <2>3. Grown(d)
    BY <1>3, <2>1, <2>2, AboveKeeps
  <2> QED
    BY <2>1, <2>3
<1>9. CASE HandshakeDone /\ BaseFails /\ ~ReportedAsNothing
  <2>1. /\ topQueue' = <<>> /\ baseQueue' = <<>> /\ baseQueue = <<>>
        /\ socket' = socket /\ accepted' = accepted
    BY <1>9 DEF PassOn, BaseFails
  <2>2. OneQueue' /\ Gated'
    BY <2>1 DEF OneQueue, Gated
  <2>3. socket \o <<>> = socket
    BY <1>1, EmptyNeutral
  <2>4. Grown(<<>>)
    BY <1>1, <1>3, <1>5, <2>1, <2>2, <2>3 DEF Grown
  <2> QED
    BY <2>1, <2>4
<1> QED
  BY <1>6, <1>7, <1>8, <1>9

(* stream_handle_outgoing_data moves what waits, and neither drops nor adds *)
(* a byte.                                                                  *)
LEMMA HandleOutgoingKeeps ==
    ASSUME IInv, NEW ret \in Returns, HandleOutgoing(ret)
    PROVE  Grown(<<>>)
<1>1. /\ baseQueue \in Bytes /\ socket \in Bytes /\ topQueue \in Bytes
      /\ tls \in TlsStates
      /\ Len(socket) \in Nat /\ Len(socket) <= SocketSize /\ SocketSize \in Nat
      /\ Len(baseQueue) \in Nat /\ Len(topQueue) \in Nat
  BY Typed DEF IInv, StackTypeOK, TlsStates
<1>2. StackTypeOK /\ Gated /\ OneQueue
  BY DEF IInv
<1>3. <<>> \in Bytes /\ Len(<<>>) = 0
  BY EmptyNeutral
<1>4. PICK j \in Takes(Len(baseQueue)) :
        LET left == Len(baseQueue) - j
            room == IF SocketRoom - j < Moved THEN SocketRoom - j ELSE Moved
        IN  \/ /\ topQueue # <<>> /\ HandshakeDone /\ ~BaseFails
               /\ \E k \in (IF left > 0 \/ room = 0 \/ broken THEN {0} ELSE 1..room) :
                    SendFirst(j + k, baseQueue \o SubSeq(topQueue, 1, Moved), <<>>)
               /\ topQueue' = SubSeq(topQueue, Moved + 1, Len(topQueue))
               /\ tls' = TlsAfter
               /\ \E below \in BaseReturns(j) : ret = below + Moved
            \/ /\ topQueue # <<>> /\ (~HandshakeDone \/ BaseFails)
               /\ SendFirst(j, baseQueue, <<>>)
               /\ tls' = TlsAfter
               /\ ret = IF broken THEN 0 ELSE -1
               /\ UNCHANGED topQueue
            \/ /\ topQueue = <<>>
               /\ SendFirst(j, baseQueue, <<>>)
               /\ ret \in BaseReturns(j)
               /\ UNCHANGED <<topQueue, tls>>
  BY DEF HandleOutgoing
<1>5. j \in 0..Len(baseQueue) /\ Len(socket) + j <= SocketSize
  BY <1>1, <1>2, TakesFit
<1>6. CASE topQueue # <<>> /\ HandshakeDone /\ ~BaseFails
  <2>1. baseQueue = <<>> /\ Len(baseQueue) = 0 /\ j = 0
    BY <1>2, <1>3, <1>6, TakesNothing DEF OneQueue
  <2>2. SubSeq(topQueue, 1, Moved) = topQueue
    BY <1>1, SubSeqFull DEF Moved, Bytes
  <2>3. PICK k \in (IF Len(baseQueue) - j > 0 \/ (IF SocketRoom - j < Moved THEN SocketRoom - j ELSE Moved) = 0
                       \/ broken
                    THEN {0} ELSE 1 .. (IF SocketRoom - j < Moved THEN SocketRoom - j ELSE Moved)) :
          SendFirst(j + k, baseQueue \o SubSeq(topQueue, 1, Moved), <<>>)
    BY <1>4, <1>6
  <2>4. k \in 0..Len(topQueue) /\ Len(socket) + k <= SocketSize /\ j + k = k
    BY <1>1, <2>1, <2>3 DEF SocketRoom, Moved
  <2>5. baseQueue \o SubSeq(topQueue, 1, Moved) = topQueue
    BY <1>1, <2>1, <2>2, EmptyNeutral
  <2>6. SendFirst(k, topQueue, <<>>)
    BY <2>3, <2>4, <2>5
  <2>7. topQueue' = <<>> /\ tls' \in TlsStates /\ Through'
    <3>1. topQueue' = SubSeq(topQueue, Len(topQueue) + 1, Len(topQueue)) /\ tls' = TlsAfter
      BY <1>4, <1>6 DEF Moved
    <3>2. SubSeq(topQueue, Len(topQueue) + 1, Len(topQueue)) = <<>>
      BY <1>1, SubSeqEmpty
    <3>3. TlsAfter \in TlsStates /\ TlsAfter \in {"none", "finished"}
      BY <1>6 DEF TlsAfter, HandshakeDone, Through, TlsStates
    <3> QED
      BY <3>1, <3>2, <3>3 DEF Through
  <2>8. /\ socket' \in Bytes /\ baseQueue' \in Bytes
        /\ Len(socket') = Len(socket) + k
        /\ socket' \o baseQueue' = socket \o (topQueue \o <<>>)
    BY <1>1, <1>3, <2>4, <2>6, SendKeeps
  <2>9. socket' \o baseQueue' = ((socket \o baseQueue) \o topQueue) \o <<>>
    <3>1. socket \o baseQueue = socket /\ topQueue \o <<>> = topQueue
      BY <1>1, <2>1, EmptyNeutral
    <3>2. socket \o topQueue \in Bytes
      BY <1>1, Concat
    <3>3. (socket \o topQueue) \o <<>> = socket \o topQueue
      BY <3>2, EmptyNeutral
    <3> QED
      BY <2>8, <3>1, <3>3
  <2>10. (socket' \o baseQueue') \o topQueue' = ((socket \o baseQueue) \o topQueue) \o <<>>
    <3>1. socket' \o baseQueue' \in Bytes
      BY <2>8, Concat
    <3>2. (socket' \o baseQueue') \o <<>> = socket' \o baseQueue'
      BY <3>1, EmptyNeutral
    <3> QED
      BY <2>7, <2>9, <3>2
  <2>11. OneQueue' /\ Gated'
    BY <2>7 DEF OneQueue, Gated
  <2>12. Len(socket') <= SocketSize
    BY <2>4, <2>8
  <2> QED
    BY <1>3, <2>7, <2>8, <2>10, <2>11, <2>12 DEF Grown
<1>7. CASE topQueue # <<>> /\ (~HandshakeDone \/ BaseFails)
  <2>1. baseQueue = <<>> /\ Len(baseQueue) = 0 /\ j = 0 /\ Secure
    BY <1>2, <1>3, <1>7, TakesNothing DEF OneQueue, StackTypeOK
  <2>2. SendFirst(0, <<>>, <<>>) /\ topQueue' = topQueue /\ tls' = TlsAfter
    BY <1>4, <1>7, <2>1
  <2>3. 0 \in 0..Len(<<>>)
    BY <1>3
  <2>4. /\ socket' \in Bytes /\ baseQueue' \in Bytes
        /\ Len(socket') = Len(socket) + 0
        /\ Len(baseQueue') = Len(<<>>) - 0 + Len(<<>>)
        /\ socket' \o baseQueue' = socket \o (<<>> \o <<>>)
    BY <1>1, <1>3, <2>2, <2>3, SendKeeps
  <2>5. baseQueue' = <<>>
    <3>1. Len(baseQueue') = 0
      BY <1>3, <2>4
    <3> QED
      BY <2>4, <3>1, EmptySeq DEF Bytes
  <2>6. socket' = socket
    BY <1>1, <1>3, <2>4, <2>5, EmptyNeutral
  <2>7. tls' \in TlsStates /\ Secure'
    BY <1>1, <2>1, <2>2 DEF TlsAfter, Secure, TlsStates
  <2>8. topQueue' = topQueue \o <<>>
    BY <1>1, <2>2, EmptyNeutral
  <2> QED
    BY <1>3, <2>1, <2>5, <2>6, <2>7, <2>8, AboveKeeps
<1>8. CASE topQueue = <<>>
  <2>1. SendFirst(j, baseQueue, <<>>) /\ topQueue' = <<>> /\ tls' = tls
    BY <1>4, <1>8
  <2>2. baseQueue \o <<>> = baseQueue \o <<>>
    OBVIOUS
  <2>3. ASSUME ~Through'
        PROVE  baseQueue' = <<>>
    <3>1. baseQueue = <<>> /\ Len(baseQueue) = 0 /\ j = 0
      BY <1>2, <1>3, <2>1, <2>3, TakesNothing DEF Gated, Through
    <3>2. /\ baseQueue' \in Bytes
          /\ Len(baseQueue') = Len(baseQueue) - j + Len(<<>>)
      BY <1>1, <1>3, <1>5, <2>1, SendKeeps
    <3>3. Len(baseQueue') = 0
      BY <1>3, <3>1, <3>2
    <3> QED
      BY <3>2, <3>3, EmptySeq DEF Bytes
  <2> QED
    BY <1>1, <1>3, <1>5, <1>8, <2>1, <2>2, <2>3, BelowKeeps
<1> QED
  BY <1>6, <1>7, <1>8

(* A call of the application that accepts what the stack has grown by.      *)
LEMMA CallKeeps ==
    ASSUME IInv, NEW d \in Bytes, Grown(d), accepted' = accepted \o d,
           offered' \in 0..MaxOffered, received' = received, broken' = broken,
           flushing' \in {"no", "top", "base"}, flushed' \in {-1, 0, 1}
    PROVE  IInv'
<1>1. /\ topQueue \in Bytes /\ baseQueue \in Bytes /\ accepted \in Bytes
      /\ socket \in Bytes /\ received \in Bytes /\ broken \in BOOLEAN
  BY Typed DEF IInv, StackTypeOK, TlsStates
<1>2. topQueue' \in Bytes /\ baseQueue' \in Bytes /\ socket' \in Bytes
  BY DEF Grown
<1>3. accepted' \in Bytes
  BY <1>1, Concat
<1>4. StackTypeOK'
  BY <1>1, <1>2, <1>3 DEF StackTypeOK, Secure, TlsStates, Grown, Bytes
<1>5. Conserved'
  <2> DEFINE content == (socket \o baseQueue) \o topQueue
  <2>1. content \in Bytes /\ received \o content = accepted
    <3>1. Bracketed(received, socket, baseQueue, topQueue)
      BY <1>1, Brackets
    <3> QED
      BY <3>1 DEF Bracketed, IInv, Conserved
  <2>2. ((received' \o socket') \o baseQueue') \o topQueue'
          = received \o ((socket' \o baseQueue') \o topQueue')
    <3>1. /\ received \in Bytes /\ socket' \in Bytes
          /\ baseQueue' \in Bytes /\ topQueue' \in Bytes
      BY <1>1, <1>2
    <3>2. Bracketed(received, socket', baseQueue', topQueue')
      BY <3>1, Brackets
    <3> QED
      BY <3>2 DEF Bracketed
  <2>3. (socket' \o baseQueue') \o topQueue' = content \o d
    BY DEF Grown
  <2> HIDE DEF content
  <2>4. received \o (content \o d) = (received \o content) \o d
    <3>1. Rebracketed(received, content, d)
      BY <1>1, <2>1, Rebracketing
    <3> QED
      BY <3>1 DEF Rebracketed
  <2> QED
    BY <2>1, <2>2, <2>3, <2>4 DEF Conserved
<1> QED
  BY <1>4, <1>5 DEF IInv, Grown

(* stream_write: the bytes it is given are numbers.                         *)
LEMMA WriteKeeps ==
    ASSUME IInv, NEW n \in 1..MaxLength, Write(n)
    PROVE  IInv'
<1> DEFINE d == [i \in 1..n |-> offered + i]
<1>1. /\ flushing = "no" /\ flushing' = flushing /\ flushed' = flushed
      /\ received' = received /\ broken' = broken
      /\ flushed \in {-1, 0, 1} /\ offered \in Nat /\ n \in Nat
  BY StackAssumption DEF Write, IInv, StackTypeOK
<1>2. offered' \in 0..MaxOffered
  BY <1>1, StackAssumption DEF Write
<1>3. d \in Bytes
  BY <1>1 DEF Bytes
<1>4. <<>> \in Bytes /\ accepted \o <<>> = accepted
  BY EmptyNeutral, Typed DEF IInv
<1>5. IF MustQueue(topQueue)
      THEN /\ topQueue' = topQueue \o d
           /\ accepted' = accepted \o d
           /\ UNCHANGED <<baseQueue, socket, tls>>
      ELSE PassOn(d)
  BY DEF Write
<1> HIDE DEF d
<1>6. CASE MustQueue(topQueue)
  <2>1. Secure /\ baseQueue = <<>> /\ tls \in TlsStates
    BY <1>6 DEF MustQueue, IInv, OneQueue, StackTypeOK, TlsStates
  <2>3. Secure' /\ tls' \in TlsStates
    BY <1>5, <1>6, <2>1 DEF Secure
  <2>2. Grown(d)
    BY <1>3, <1>5, <1>6, <2>1, <2>3, AboveKeeps
  <2> QED
    BY <1>1, <1>2, <1>3, <1>5, <1>6, <2>2, CallKeeps
<1>7. CASE ~MustQueue(topQueue)
  <2>1. topQueue = <<>> /\ PassOn(d)
    BY <1>5, <1>7 DEF MustQueue
  <2>2. CASE Grown(d) /\ accepted' = accepted \o d
    BY <1>1, <1>2, <1>3, <2>2, CallKeeps
  <2>3. CASE Grown(<<>>) /\ accepted' = accepted
    BY <1>1, <1>2, <1>4, <2>3, CallKeeps
  <2> QED
    BY <1>3, <2>1, <2>2, <2>3, PassOnKeeps
<1> QED
  BY <1>6, <1>7

(* The idler's write, and a turn of the loop of stream_flush.               *)
LEMMA DrainKeeps ==
    ASSUME IInv, NEW ret \in Returns, HandleOutgoing(ret),
           UNCHANGED <<offered, accepted, received, broken>>,
           \/ UNCHANGED <<flushing, flushed>>
           \/ flushing' = "no" /\ flushed' = ret /\ ret <= 0
    PROVE  IInv'
<1>1. flushing' \in {"no", "top", "base"} /\ flushed' \in {-1, 0, 1}
  <2>1. flushing \in {"no", "top", "base"} /\ flushed \in {-1, 0, 1}
    BY DEF IInv, StackTypeOK
  <2>2. ret \in -1 .. MaxOffered /\ MaxOffered \in Nat
    BY StackAssumption DEF Returns
  <2>3. CASE UNCHANGED <<flushing, flushed>>
    BY <2>1, <2>3
  <2>4. CASE flushing' = "no" /\ flushed' = ret /\ ret <= 0
    <3>1. ret = -1 \/ ret = 0
      BY <2>2, <2>4
    <3> QED
      BY <2>4, <3>1
  <2> QED
    BY <2>3, <2>4
<1>2. <<>> \in Bytes /\ accepted' = accepted \o <<>>
  BY EmptyNeutral, Typed DEF IInv
<1>3. Grown(<<>>)
  BY HandleOutgoingKeeps
<1>4. /\ offered' \in 0..MaxOffered /\ received' = received /\ broken' = broken
      /\ accepted' = accepted
  BY DEF IInv, StackTypeOK, TlsStates
<1> QED
  BY <1>1, <1>2, <1>3, <1>4, CallKeeps

-----------------------------------------------------------------------------
(* The invariant.                                                          *)

(* The invariant holds at first,                                            *)
LEMMA Starts == StackInit => IInv
<1> SUFFICES ASSUME StackInit PROVE IInv
  OBVIOUS
<1>1. StackTypeOK
  <2>1. <<>> \in Seq(Nat) /\ Len(<<>>) = 0
    BY EmptyNeutral DEF Bytes
  <2>2. Len(socket) <= SocketSize /\ 0 \in 0..MaxOffered
    BY <2>1, StackAssumption DEF StackInit
  <2>3. flushed \in {-1, 0, 1} /\ tls \in TlsStates
    <3>1. flushed = 1 /\ tls \in {"none", "pending"}
      BY DEF StackInit
    <3> QED
      BY <3>1 DEF TlsStates
  <2>4. topQueue = <<>> /\ baseQueue = <<>> /\ socket = <<>> /\ received = <<>> /\ accepted = <<>>
        /\ flushing = "no" /\ broken = FALSE /\ offered = 0
    BY DEF StackInit
  <2> QED
    BY <2>1, <2>2, <2>3, <2>4 DEF StackTypeOK, TlsStates
<1>2. OneQueue /\ Gated
  BY StackAssumption DEF StackInit, OneQueue, Gated, Through
<1>3. Conserved
  BY EmptyNeutral DEF StackInit, Conserved
<1> QED
  BY <1>1, <1>2, <1>3 DEF IInv

(* and every step keeps it.                                                 *)
LEMMA Kept == IInv /\ [StackNext]_stackVars => IInv'
<1> SUFFICES ASSUME IInv, [StackNext]_stackVars
             PROVE  IInv'
  OBVIOUS
<1>1. StackTypeOK /\ OneQueue /\ Gated /\ Conserved
  BY DEF IInv
<1>2. CASE \E n \in 1..MaxLength : Write(n)
  BY <1>2, WriteKeeps
<1>3. CASE Drain
  BY <1>3, DrainKeeps DEF Drain
<1>4. CASE ReadCall
  <2>1. StackTypeOK'
    BY <1>1, <1>4 DEF ReadCall, StackTypeOK, Secure, TlsStates
  <2>2. OneQueue' /\ Gated'
    BY <1>1, <1>4 DEF ReadCall, OneQueue, Gated, Through
  <2>3. Conserved'
    BY <1>1, <1>4 DEF ReadCall, Conserved
  <2> QED
    BY <2>1, <2>2, <2>3 DEF IInv
<1>5. CASE StartFlush
  <2>1. StackTypeOK'
    BY <1>1, <1>5 DEF StartFlush, StackTypeOK, Secure, TlsStates
  <2>2. OneQueue' /\ Gated' /\ Conserved'
    BY <1>1, <1>5 DEF StartFlush, OneQueue, Gated, Through, Conserved
  <2> QED
    BY <2>1, <2>2 DEF IInv
<1>6. CASE FlushStep
  <2>1. CASE FlushTurn("top", topQueue) \/ FlushTurn("base", baseQueue)
    <3>1. PICK ret \in Returns :
            /\ HandleOutgoing(ret)
            /\ IF ret = 0 \/ (ret < 0 /\ broken)
               THEN flushing' = "no" /\ flushed' = ret
               ELSE UNCHANGED <<flushing, flushed>>
      BY <2>1 DEF FlushTurn
    <3>2. \/ UNCHANGED <<flushing, flushed>>
          \/ flushing' = "no" /\ flushed' = ret /\ ret <= 0
      BY <3>1 DEF Returns
    <3>3. UNCHANGED <<offered, accepted, received, broken>>
      BY <2>1 DEF FlushTurn
    <3> QED
      BY <3>1, <3>2, <3>3, DrainKeeps
  <2>2. CASE FlushBelow
    <3>1. StackTypeOK'
      BY <1>1, <2>2 DEF FlushBelow, StackTypeOK, Secure, TlsStates
    <3>2. OneQueue' /\ Gated' /\ Conserved'
      BY <1>1, <2>2 DEF FlushBelow, OneQueue, Gated, Through, Conserved
    <3> QED
      BY <3>1, <3>2 DEF IInv
  <2> QED
    BY <1>6, <2>1, <2>2 DEF FlushStep
<1>7. CASE TlsArrives
  <2>1. StackTypeOK'
    BY <1>1, <1>7 DEF TlsArrives, StackTypeOK, Secure, TlsStates
  <2>2. OneQueue' /\ Gated'
    BY <1>1, <1>7 DEF TlsArrives, OneQueue, Gated, Through
  <2>3. Conserved'
    BY <1>1, <1>7 DEF TlsArrives, Conserved
  <2> QED
    BY <2>1, <2>2, <2>3 DEF IInv
<1>8. CASE PeerReads
  <2>1. /\ topQueue \in Bytes /\ baseQueue \in Bytes /\ accepted \in Bytes
        /\ socket \in Bytes /\ received \in Bytes
        /\ SocketSize \in Nat
    BY <1>1, Typed
  <2>2. /\ received' = received \o socket /\ socket' = <<>>
        /\ UNCHANGED <<topQueue, baseQueue, tls, flushing, flushed, offered, accepted, broken>>
    BY <1>8 DEF PeerReads
  <2>3. received' \in Bytes /\ socket' \in Bytes /\ Len(socket') = 0
    BY <2>1, <2>2, Concat, EmptyNeutral
  <2>4. StackTypeOK'
    BY <1>1, <2>1, <2>2, <2>3 DEF StackTypeOK, Secure, TlsStates, Bytes
  <2>5. OneQueue' /\ Gated'
    BY <1>1, <2>2 DEF OneQueue, Gated, Through
  <2>6. received' \o socket' = received \o socket
    BY <2>2, <2>3, EmptyNeutral
  <2>7. Conserved'
    BY <1>1, <2>2, <2>6 DEF Conserved
  <2> QED
    BY <2>4, <2>5, <2>7 DEF IInv
<1>9. CASE Break
  <2>1. StackTypeOK'
    BY <1>1, <1>9 DEF Break, StackTypeOK, Secure, TlsStates
  <2>2. OneQueue' /\ Gated' /\ Conserved'
    BY <1>1, <1>9 DEF Break, OneQueue, Gated, Through, Conserved
  <2> QED
    BY <2>1, <2>2 DEF IInv
<1>10. CASE UNCHANGED stackVars
  <2>1. StackTypeOK'
    BY <1>1, <1>10 DEF stackVars, StackTypeOK, Secure, TlsStates
  <2>2. OneQueue' /\ Gated' /\ Conserved'
    BY <1>1, <1>10 DEF stackVars, OneQueue, Gated, Through, Conserved
  <2> QED
    BY <2>1, <2>2 DEF IInv
<1> QED
  BY <1>2, <1>3, <1>4, <1>5, <1>6, <1>7, <1>8, <1>9, <1>10 DEF StackNext

(* Every reachable state is one of the invariant.                           *)
LEMMA Invariant == StackSpec => []IInv
  BY Starts, Kept, PTL DEF StackSpec

(* The state of a stack is well typed; in particular the socket holds no    *)
(* more than it can, and nothing stays in the queue of a top stream that    *)
(* lies directly on its base.                                               *)
THEOREM StackTypeCorrect == StackSpec => []StackTypeOK
<1>1. IInv => StackTypeOK
  BY DEF IInv
<1> QED
  BY <1>1, Invariant, PTL

(* What stream_write has accepted is never lost, repeated or overtaken on   *)
(* its way through the two queues to the socket, for writes, sockets and    *)
(* numbers of bytes of any size.                                            *)
THEOREM NothingLost == StackSpec => []Conserved
<1>1. IInv => Conserved
  BY DEF IInv
<1> QED
  BY <1>1, Invariant, PTL

(* One of the two queues is always empty, so that the sum of what two       *)
(* streams return is what one of them has returned.                         *)
THEOREM OneQueueAtATime == StackSpec => []OneQueue
<1>1. IInv => OneQueue
  BY DEF IInv
<1> QED
  BY <1>1, Invariant, PTL

=============================================================================
