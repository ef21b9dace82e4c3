--------------------------- MODULE MqttOrderProofs ---------------------------
(***************************************************************************)
(* Theorems of StreamMqtt about what a stream has in flight and the order  *)
(* in which it arrives: a request is answered or given up                  *)
(* (RequestsAnswered), and publications do not overtake each other         *)
(* (InOrder: one frame in flight, arrival in the order of publication);    *)
(* and about the keep-alive, which leaves an accepted connection open.     *)
(*                                                                         *)
(* Three invariants carry them.  FlightInv: behind a frame of outgoing     *)
(* that was not written none was, and the other stream knows nothing of    *)
(* such a frame.  PublishedOnce: what is published has an id of its own.   *)
(* LineInv: when a publication was written, those published before it have *)
(* been received, or have QoS 0 and are ahead of it on the way.  LineInv   *)
(* needs a receiver that runs, for nothing is written to another; it needs *)
(* a sender that gave nothing up and a way without a loss.                 *)
(*                                                                         *)
(* A step leaves the queue outgoing of p alone (Leaves), or it is a call   *)
(* that publishes or requests, stream_mqtt_do_time, or the handling of an  *)
(* acknowledgement (StepLeaves); the lemmas follow these cases.            *)
(*                                                                         *)
(* The last section is about the keep-alive (StaysUp): UpInv relates the   *)
(* timers of both streams to the frames on their way that start or feed    *)
(* them.  A step is quiet for it (Quiet), or it is stream_mqtt_connect,    *)
(* stream_mqtt_connack, the handling of one of the four frames of the      *)
(* keep-alive, stream_mqtt_do_time, or a unit of time.                     *)
(***************************************************************************)
EXTENDS MqttDeliveryProofs

-----------------------------------------------------------------------------
(* What a stream receives.                                                 *)

\* The frames that have come to q, read by its application or not.
Known(q) == OnWire(q) \cup Waiting(q) \cup Got(q)

\* In this step q has received frames that had come to it, and its application
\* owes answers only to frames received.
Receipts(q) ==
    /\ Got(q) \subseteq Got(q)' /\ Got(q)' \subseteq Known(q)
    /\ Waiting(q)' \subseteq Known(q)
    /\ todo'[q] \subseteq todo[q] \cup Got(q)'

(* Frames handed to the observer or queued: stream_mqtt_notify_observer.    *)
LEMMA NotifyReceipts ==
    ASSUME TypeOK, NEW r \in Peers, NEW frames \in Seq(FrameType), Notify(r, frames),
           ToSet(frames) \subseteq Known(r)
    PROVE  \A q \in Peers :
             /\ Got(q) \subseteq Got(q)' /\ Got(q)' \subseteq Known(q)
             /\ todo'[q] \subseteq todo[q] \cup Got(q)'
<1>1. Got(r)' = Got(r) \cup ToSet(frames)
  BY NotifyGains DEF Gains
<1>2. todo'[r] \subseteq todo[r] \cup ToSet(frames)
  BY DEF Notify, Hand, TypeOK
<1>3. ASSUME NEW q \in Peers, q # r
      PROVE  Got(q)' = Got(q) /\ todo'[q] = todo[q]
  <2>1. Got(q)' = Got(q)
    BY <1>3, NotifyGains DEF Got
  <2> QED
    BY <1>3, <2>1 DEF Notify, Hand, TypeOK
<1> QED
  BY <1>1, <1>2, <1>3 DEF Known

(* The cases of stream_mqtt_handle_received_frame.                          *)
LEMMA HandlingReceipts ==
    ASSUME TypeOK, NEW r \in Peers, HandleReceivedFrame(r)
    PROVE  \A q \in Peers : Receipts(q)
<1> DEFINE f == Head(buffer[r])
           b == inbound[r]
           waiting == {k \in DOMAIN b : b[k].id = f.id}
<1>1. f \in FrameType /\ f \in OnWire(r) /\ b \in Seq(FrameType) /\ Waiting(r) = ToSet(b)
  BY HandlingWay DEF TypeOK, Waiting
<1>2. \/ ReceiveConnect(r, f) \/ ReceiveConnack(r, f) \/ ReceiveForApplication(r, f)
      \/ ReceivePublish(r, f) \/ ReceiveAck(r, f) \/ ReceivePubrel(r, f)
      \/ ReceivePing(r, f)
  BY DEF HandleReceivedFrame
<1> HIDE DEF f
<1>3. \/ Notify(r, <<f>>) \/ Notify(r, Only(b, waiting)) \/ UNCHANGED recvVars
  BY <1>2
  DEF ReceiveConnect, ReceiveConnack, ReceiveForApplication, ReceivePublish,
      ReceiveAck, ReceivePubrel, ReceivePing
<1>4. /\ \A q \in Peers : q # r => inbound'[q] = inbound[q]
      /\ \/ inbound'[r] = b \/ inbound'[r] = ReplacingCopies(b, f)
         \/ inbound'[r] = Without(b, waiting)
  BY <1>2
  DEF ReceiveConnect, ReceiveConnack, ReceiveForApplication, ReceivePublish,
      ReceiveAck, ReceivePubrel, ReceivePing, TypeOK
<1>5. /\ <<f>> \in Seq(FrameType) /\ ToSet(<<f>>) = {f}
      /\ Only(b, waiting) \in Seq(FrameType)
      /\ ToSet(Only(b, waiting)) \subseteq ToSet(b)
      /\ ToSet(Without(b, waiting)) \subseteq ToSet(b)
  <2> HIDE DEF b, waiting
  <2>1. Only(b, waiting) \in Seq(FrameType) /\ ToSet(Only(b, waiting)) = {b[k] : k \in DOMAIN b \cap waiting}
    BY <1>1, OnlyOrder
  <2>2. ToSet(Without(b, waiting)) = {b[k] : k \in DOMAIN b \ waiting}
    BY <1>1, WithoutOrder
  <2>3. ToSet(b) = {b[k] : k \in DOMAIN b}
    BY DEF ToSet
  <2>4. ToSet(Only(b, waiting)) \subseteq ToSet(b) /\ ToSet(Without(b, waiting)) \subseteq ToSet(b)
    BY <2>1, <2>2, <2>3
  <2>5. <<f>> \in Seq(FrameType) /\ ToSet(<<f>>) = {f}
    BY <1>1, SingleEntry
  <2> QED
    BY <2>1, <2>4, <2>5
<1>6. \A q \in Peers : Waiting(q)' \subseteq Known(q)
  <2>1. inbound'[r] = ReplacingCopies(b, f) => Waiting(r)' \subseteq Waiting(r) \cup {f}
    BY <1>1, ReplacingWaits
  <2> QED
    BY <1>1, <1>4, <1>5, <2>1 DEF Known, Waiting
<1>7. CASE UNCHANGED recvVars
  <2>1. \A q \in Peers : Got(q)' = Got(q) /\ todo'[q] = todo[q]
    BY <1>7 DEF recvVars, Got, Received
  <2> QED
    BY <1>6, <2>1 DEF Receipts, Known
<1>8. CASE Notify(r, <<f>>)
  BY <1>1, <1>5, <1>6, <1>8, NotifyReceipts DEF Receipts, Known
<1>9. CASE Notify(r, Only(b, waiting))
  <2>1. ToSet(Only(b, waiting)) \subseteq Known(r)
    BY <1>1, <1>5 DEF Known
  <2> HIDE DEF b, waiting
  <2> QED
    BY <1>5, <1>6, <1>9, <2>1, NotifyReceipts DEF Receipts
<1> QED
  BY <1>3, <1>7, <1>8, <1>9

(* The frames of the queue incoming are received already when the           *)
(* application takes them, and no other step receives any.                  *)
LEMMA ReceiptsStep ==
    ASSUME TypeOK, [Next]_vars
    PROVE  \A q \in Peers : Receipts(q)
<1>1. ASSUME UNCHANGED inbound, NEW q \in Peers, Received(q)' = Received(q),
             todo'[q] \subseteq todo[q] \cup Got(q)
      PROVE  Receipts(q)
  BY <1>1 DEF Receipts, Known, Got, Waiting
<1>2. ASSUME NEW r \in Peers, TakeFrame(r) PROVE \A q \in Peers : Receipts(q)
  <2> DEFINE i == incoming[r]
             h == Head(i)
  <2>1. \A q \in Peers : Received(q)' = Received(q)
    BY <1>2, TakeFrameReceives
  <2>2. i \in Seq(FrameType) /\ i # <<>> /\ delivered[r] \in Seq(FrameType)
    BY <1>2 DEF TakeFrame, TypeOK
  <2>3. h \in Got(r)
    <3>1. h \in ToSet(i)
      BY <2>2, HeadEntries
    <3> HIDE DEF i, h
    <3>2. ToSet(delivered[r] \o i) = ToSet(delivered[r]) \cup ToSet(i)
      BY <2>2, ConcatEntries
    <3> QED
      BY <3>1, <3>2 DEF Got, Received, i
  <2>4. /\ UNCHANGED inbound
        /\ \A q \in Peers : q # r => todo'[q] = todo[q]
        /\ todo'[r] \subseteq todo[r] \cup ToSet(<<h>>)
    BY <1>2 DEF TakeFrame, Hand, TypeOK
  <2>5. ToSet(<<h>>) = {h}
    BY SingleEntry
  <2> QED
    BY <1>1, <2>1, <2>3, <2>4, <2>5
<1>3. CASE /\ UNCHANGED <<delivered, incoming, inbound>>
           /\ \A q \in Peers : todo'[q] \subseteq todo[q]
  BY <1>1, <1>3 DEF Received
<1>4. ASSUME NEW r \in Peers, Answer(r) PROVE \A q \in Peers : Receipts(q)
  <2>1. \A q \in Peers : todo'[q] \subseteq todo[q]
    BY <1>4 DEF Answer, TypeOK
  <2> QED
    BY <1>3, <1>4, <2>1 DEF Answer
<1>5. CASE UNCHANGED <<delivered, incoming, inbound, todo>>
  BY <1>3, <1>5
<1> QED
  BY <1>2, <1>4, <1>5, HandlingReceipts
  DEF Next, vars, recvVars, Tick, Connect, Publish, Request, Disconnect, ByteCall, Read,
      DoTime, Lose, Crash

-----------------------------------------------------------------------------
(* Requests: a subscription leaves the queue only with its answer.         *)

Answered(p, f) == \E a \in Got(p) : a.type = AnswerType(f.type) /\ a.id = f.id

\* Every request of p waits, was given up or was answered.
AskedInv(p) ==
    \A f \in requested[p] :
        /\ f.type \in {"SUBSCRIBE", "UNSUBSCRIBE"}
        /\ f \in Outgoing(p) \cup Abandoned(p) \/ Answered(p, f)

(* Every step of the two streams: a SUBACK and an UNSUBACK remove their     *)
(* request and are handed to the application in one step.                   *)
LEMMA AskedStep ==
    ASSUME TypeOK, QueuesRequests, [Next]_vars, NEW p \in Peers, AskedInv(p)
    PROVE  AskedInv(p)'
<1>1. Kind(p) /\ Got(p) \subseteq Got(p)'
  BY StepKinds, ReceiptsStep DEF Receipts
<1>2. CASE Idle(p) \/ Resends(p) \/ TakesPublish(p) \/ TakesPubrel(p)
  <2>1. /\ Outgoing(p) \cup Abandoned(p) \subseteq Outgoing(p)' \cup Abandoned(p)'
        /\ requested'[p] = requested[p]
    BY <1>2 DEF Idle, Resends, TakesPublish, TakesPubrel, SenderSame
  <2> QED
    BY <1>1, <2>1 DEF AskedInv, Answered
<1>3. CASE Submits(p)
  <2>1. /\ Outgoing(p) \cup Abandoned(p) \subseteq Outgoing(p)' \cup Abandoned(p)'
        /\ \A f \in requested'[p] :
             \/ f \in requested[p]
             \/ f.type \in {"SUBSCRIBE", "UNSUBSCRIBE"} /\ f \in Outgoing(p)'
    BY <1>3 DEF Submits
  <2> QED
    BY <1>1, <2>1 DEF AskedInv, Answered
<1>4. CASE TakesAck(p)
  <2>1. PICK a \in OnWire(p) :
          /\ a.type \in Acks \cup {"SUBACK", "UNSUBACK"}
          /\ a.type \notin Acks => a \in Got(p)'
          /\ {x \in Outgoing(p) : ~(x.type = RequestType(a.type) /\ x.id = a.id)}
               \subseteq Outgoing(p)'
    BY <1>4 DEF TakesAck
  <2>2. Abandoned(p)' = Abandoned(p) /\ requested'[p] = requested[p]
    BY <1>4 DEF TakesAck
  <2>3. ASSUME NEW f \in requested[p], f \in Outgoing(p), f \notin Outgoing(p)'
        PROVE  Answered(p, f)'
    <3>1. f.type = RequestType(a.type) /\ f.id = a.id
      BY <2>1, <2>3
    <3>2. f.type \in {"SUBSCRIBE", "UNSUBSCRIBE"}
      BY DEF AskedInv
    <3>3. a.type \notin Acks /\ AnswerType(f.type) = a.type
      BY <2>1, <3>1, <3>2 DEF RequestType, AnswerType, Acks
    <3> QED
      BY <2>1, <3>1, <3>3 DEF Answered
  <2> QED
    BY <1>1, <2>2, <2>3 DEF AskedInv, Answered
<1> QED
  BY <1>1, <1>2, <1>3, <1>4 DEF Kind

(* A subscription or the end of one is never forgotten: it waits in         *)
(* outgoing, or stream_mqtt_do_time gave it up, or its answer has been      *)
(* queued for the application.                                              *)
THEOREM RequestsAreAnswered == Spec => []RequestsAnswered
<1> DEFINE A == \A p \in Peers : AskedInv(p)
<1>1. Init => AllSafe /\ A
  BY SafeInit, InitEmpty DEF AllSafe, AskedInv
<1>2. TypeOK /\ AllSafe /\ [Next]_vars => AllSafe'
  BY QueuesStep, SafeStep DEF AllSafe
<1>3. TypeOK /\ AllSafe /\ A /\ [Next]_vars => A'
  BY AskedStep DEF AllSafe
<1>4. A => RequestsAnswered
  BY DEF AskedInv, Answered, RequestsAnswered, Got
<1> QED
  BY <1>1, <1>2, <1>3, <1>4, TypeInit, TypeStep, PTL DEF Spec

-----------------------------------------------------------------------------
(* The requests of p on their way: only what was requested is written, and *)
(* an answer comes for what the other application has.                     *)

IsRequest(f) == f.type \in {"SUBSCRIBE", "UNSUBSCRIBE"}

RequestInv(p) ==
    /\ \A f \in requested[p] : IsRequest(f) /\ f.arg = 0
    /\ \A f \in Outgoing(p) \cup OnWire(Other(p)) \cup Got(Other(p)) :
         IsRequest(f) => f \in requested[p]
    /\ todo[Other(p)] \subseteq Got(Other(p))
    /\ \A a \in OnWire(p) : a.type \in {"SUBACK", "UNSUBACK"} =>
         \E f \in Got(Other(p)) : f.type = RequestType(a.type) /\ f.id = a.id

(* What a step leaves to show: where new requests and answers come from.    *)
LEMMA RequestsKept ==
    ASSUME NEW p \in Peers, NEW F, NEW B, SafeInv(p), RequestInv(p), Receipts(Other(p)),
           Carries(Other(p), F), Carries(p, B),
           requested[p] \subseteq requested'[p],
           \A f \in requested'[p] : f \in requested[p] \/ (IsRequest(f) /\ f.arg = 0),
           \A f \in Outgoing(p)' \cup F : IsRequest(f) => f \in Outgoing(p) \cup requested'[p],
           \A a \in B : AnswersRequest(Other(p), a)
    PROVE  RequestInv(p)'
<1> DEFINE q == Other(p)
<1>1. \A f \in requested'[p] : IsRequest(f) /\ f.arg = 0
  BY DEF RequestInv
<1>2. /\ Got(q) \subseteq Got(q)' /\ Got(q)' \subseteq OnWire(q) \cup Waiting(q) \cup Got(q)
      /\ todo'[q] \subseteq todo[q] \cup Got(q)'
  BY DEF Receipts, Known
<1>3. \A f \in Waiting(q) : ~IsRequest(f)
  BY DEF SafeInv, Identified, Genuine, IsRequest
<1>4. OnWire(q)' \subseteq OnWire(q) \cup F /\ OnWire(p)' \subseteq OnWire(p) \cup B
  BY DEF Carries
<1>5. \A f \in Outgoing(p)' \cup OnWire(q)' \cup Got(q)' : IsRequest(f) => f \in requested'[p]
  BY <1>2, <1>3, <1>4 DEF RequestInv
<1>6. todo'[q] \subseteq Got(q)'
  BY <1>2 DEF RequestInv
<1>7. \A a \in OnWire(p)' : a.type \in {"SUBACK", "UNSUBACK"} =>
         \E f \in Got(q)' : f.type = RequestType(a.type) /\ f.id = a.id
  BY <1>2, <1>4 DEF RequestInv, AnswersRequest
<1> QED
  BY <1>1, <1>5, <1>6, <1>7 DEF RequestInv

(* Every step of the two streams.                                           *)
LEMMA RequestStep ==
    ASSUME TypeOK, AllSafe, [Next]_vars, NEW p \in Peers, RequestInv(p)
    PROVE  RequestInv(p)'
<1> DEFINE q == Other(p)
<1>1. Kind(p) /\ Receipts(q) /\ SafeInv(p)
  BY StepKinds, ReceiptsStep, OtherPeer DEF AllSafe
<1>2. CASE Idle(p)
  <2>1. PICK F : Carries(q, F) /\ \A x \in F : x.type \notin Waiters
    BY <1>2 DEF Idle
  <2>2. PICK B : Carries(p, B) /\ \A x \in B : AnswersRequest(q, x)
    BY <1>2 DEF Idle, NoNewAck
  <2>3. requested'[p] = requested[p] /\ Outgoing(p)' = Outgoing(p)
    BY <1>2 DEF Idle, SenderSame
  <2> QED
    BY <1>1, <2>1, <2>2, <2>3, RequestsKept DEF IsRequest, Waiters
<1>3. CASE Submits(p)
  <2>1. PICK f \in FrameType :
          /\ \/ f.type = "PUBLISH" /\ requested'[p] = requested[p]
             \/ IsRequest(f) /\ f.arg = 0 /\ requested'[p] = requested[p] \cup {f}
          /\ Outgoing(p)' \subseteq Outgoing(p) \cup {f}
          /\ Carries(q, {f})
    BY <1>3 DEF Submits, IsRequest
  <2>2. PICK B : Carries(p, B) /\ \A x \in B : AnswersRequest(q, x)
    BY <1>3 DEF Submits, NoNewAck
  <2>3. \A x \in Outgoing(p)' \cup {f} : IsRequest(x) => x \in Outgoing(p) \cup requested'[p]
    BY <2>1 DEF IsRequest
  <2>4. /\ requested[p] \subseteq requested'[p]
        /\ \A x \in requested'[p] : x \in requested[p] \/ (IsRequest(x) /\ x.arg = 0)
    BY <2>1
  <2> QED
    BY <1>1, <2>1, <2>2, <2>3, <2>4, RequestsKept
<1>4. CASE Resends(p)
  <2>1. requested'[p] = requested[p] /\ Outgoing(p)' \subseteq Outgoing(p)
    BY <1>4 DEF Resends
  <2>2. PICK F : /\ Carries(q, F)
                 /\ \A x \in F : x \in Outgoing(p) \/ x.type = "PINGREQ"
    <3>1. \/ Carries(q, {Frame("PINGREQ", NoId, 0)})
          \/ \E f \in Outgoing(p)' : Carries(q, {Frame("PINGREQ", NoId, 0), f})
      BY <1>4 DEF Resends
    <3>2. Frame("PINGREQ", NoId, 0).type = "PINGREQ"
      BY DEF Frame
    <3> QED
      BY <2>1, <3>1, <3>2
  <2>3. PICK B : Carries(p, B) /\ \A x \in B : AnswersRequest(q, x)
    BY <1>4 DEF Resends, NoNewAck
  <2> QED
    BY <1>1, <2>1, <2>2, <2>3, RequestsKept DEF IsRequest
<1>5. CASE TakesPublish(p) \/ TakesPubrel(p)
  <2>1. requested'[p] = requested[p] /\ Outgoing(p)' = Outgoing(p) /\ Carries(q, {})
    BY <1>5 DEF TakesPublish, TakesPubrel, SenderSame
  <2>2. PICK B : Carries(p, B) /\ \A x \in B : x.type \in Acks
    <3>1. \A id : /\ Frame("PUBREC", id, 0).type \in Acks /\ Frame("PUBACK", id, 0).type \in Acks
                  /\ Frame("PUBCOMP", id, 0).type \in Acks
      BY DEF Frame, Acks
    <3> QED
      BY <1>5, <3>1 DEF TakesPublish, TakesPubrel, Puback
  <2> QED
    BY <1>1, <2>1, <2>2, RequestsKept DEF Acks, AnswersRequest
<1>6. CASE TakesAck(p)
  <2>1. requested'[p] = requested[p] /\ Carries(p, {})
    BY <1>6 DEF TakesAck
  <2>2. PICK a : /\ Outgoing(p)' \subseteq Outgoing(p) \cup {Frame("PUBREL", a.id, 0)}
                 /\ Carries(q, {Frame("PUBREL", a.id, 0)}) \/ Carries(q, {})
    BY <1>6 DEF TakesAck
  <2>3. ~IsRequest(Frame("PUBREL", a.id, 0))
    BY DEF IsRequest, Frame
  <2> QED
    BY <1>1, <2>1, <2>2, <2>3, RequestsKept
<1> QED
  BY <1>1, <1>2, <1>3, <1>4, <1>5, <1>6 DEF Kind

-----------------------------------------------------------------------------
(* What waits in outgoing as long as nothing is given up.                  *)

\* The frames in outgoing that were never written.
Unsent(p) == {FrameOf(x) : x \in {y \in ToSet(outgoing[p]) : y.sent = 0}}

\* What is behind a frame was not written before it is gone; only a PUBREL is
\* queued twice (PUBREC may come again); publications wait in their order.
Lined(p) ==
    \A x, y : Before(outgoing[p], x, y) =>
        /\ y.sent > 0 => x.sent > 0 /\ FrameOf(x) = FrameOf(y)
        /\ FrameOf(x) = FrameOf(y) => x.type = "PUBREL"
        /\ x.type = "PUBLISH" /\ y.type = "PUBLISH"
             => Before(published[p], FrameOf(x), FrameOf(y))

\* resend_attempts counts how often the head was written again, and the timer
\* runs for a frame that was.
Counted(p) ==
    /\ \A x \in ToSet(outgoing[p]) :
         x.sent <= ResendAttempts /\ (x.sent > 0 => Running(resend_timer[p]))
    /\ outgoing[p] # <<>> => Head(outgoing[p]).sent <= resend_attempts[p] + 1

\* The other stream knows nothing of a frame that was never written.
Fresh(p) == \A f \in Unsent(p) : f.type # "PUBREL" /\ f \notin Known(Other(p))

FlightInv(p) == abandoned[p] = {} => Lined(p) /\ Counted(p) /\ Fresh(p)

(* Of two entries of a queue one comes before the other.                    *)
LEMMA EntriesCompare ==
    ASSUME NEW S, NEW q \in Seq(S), NEW x \in ToSet(q), NEW y \in ToSet(q), x # y
    PROVE  Before(q, x, y) \/ Before(q, y, x)
<1>1. PICK i \in DOMAIN q : q[i] = x
  BY DEF ToSet
<1>2. PICK j \in DOMAIN q : q[j] = y
  BY DEF ToSet
<1>3. i \in Nat /\ j \in Nat /\ i # j
  BY <1>1, <1>2
<1>4. i < j \/ j < i
  BY <1>3
<1> QED
  BY <1>1, <1>2, <1>4 DEF Before

(* All the frames that were written and still wait are one and the same.    *)
LEMMA OneFlies ==
    ASSUME TypeOK, NEW p \in Peers, Lined(p),
           NEW x \in ToSet(outgoing[p]), NEW y \in ToSet(outgoing[p]), x.sent > 0, y.sent > 0
    PROVE  FrameOf(x) = FrameOf(y)
<1>1. outgoing[p] \in Seq(ItemType)
  BY DEF TypeOK
<1>2. x = y \/ Before(outgoing[p], x, y) \/ Before(outgoing[p], y, x)
  BY <1>1, EntriesCompare
<1> QED
  BY <1>2 DEF Lined

(* A frame that waits has been written or not.                              *)
LEMMA SentOrNot ==
    ASSUME TypeOK, NEW p \in Peers, NEW f \in Outgoing(p), f \notin Unsent(p)
    PROVE  \E x \in ToSet(outgoing[p]) : FrameOf(x) = f /\ x.sent > 0
<1>1. PICK x \in ToSet(outgoing[p]) : FrameOf(x) = f
  BY DEF Outgoing
<1>2. x.sent \in Nat
  <2>1. outgoing[p] \in Seq(ItemType)
    BY DEF TypeOK
  <2>2. x \in ItemType
    BY <2>1, QueueTyped
  <2> QED
    BY <2>2 DEF ItemType
<1>3. x.sent # 0
  BY <1>1 DEF Unsent
<1> QED
  BY <1>1, <1>2, <1>3

(* An acknowledgement is for a frame that was written, and a PUBREC finds   *)
(* its message in flight, or the PUBREL that took its place.                *)
LEMMA AckedFlies ==
    ASSUME TypeOK, NEW p \in Peers, SafeInv(p), CareInv(p), RequestInv(p),
           abandoned[p] = {}, Lined(p), Fresh(p),
           NEW a \in OnWire(p), a.type \in Acks \cup {"SUBACK", "UNSUBACK"}
    PROVE  /\ \A f \in Outgoing(p) :
                f.type = RequestType(a.type) /\ f.id = a.id => f \notin Unsent(p)
           /\ a.type = "PUBREC" =>
                \A y \in ToSet(outgoing[p]) : y.sent > 0 =>
                    \/ FrameOf(y) = Frame("PUBREL", a.id, 0)
                    \/ FrameOf(y).type = "PUBLISH" /\ FrameOf(y).id = a.id
<1> DEFINE q == Other(p)
<1>1. ASSUME NEW f \in Outgoing(p), f.type = RequestType(a.type), f.id = a.id
      PROVE  f \notin Unsent(p)
  <2>1. CASE a.type \in {"PUBACK", "PUBREC"}
    <3>1. f.type = "PUBLISH"
      BY <1>1, <2>1 DEF RequestType
    <3>2. f \in Published(p)
      BY <3>1 DEF SafeInv, Genuine
    <3>3. PICK g \in Published(p) : g.id = a.id /\ g \in Known(q)
      BY <2>1 DEF SafeInv, Acknowledged, AcknowledgesHeld, Answers, Holds, Known
    <3>4. f = g
      BY <1>1, <3>2, <3>3 DEF SafeInv, Identified
    <3> QED
      BY <3>3, <3>4 DEF Fresh
  <2>2. CASE a.type = "PUBCOMP"
    <3>1. f.type = "PUBREL"
      BY <1>1, <2>2 DEF RequestType
    <3> QED
      BY <3>1 DEF Fresh
  <2>3. CASE a.type \in {"SUBACK", "UNSUBACK"}
    <3>1. IsRequest(f) /\ \A g : g.type = f.type => IsRequest(g)
      BY <1>1, <2>3 DEF RequestType, IsRequest
    <3>2. PICK g \in Got(q) : g.type = f.type /\ g.id = f.id
      BY <1>1, <2>3 DEF RequestInv
    <3>3. f \in requested[p] /\ g \in requested[p]
      BY <3>1, <3>2 DEF RequestInv
    <3>4. f.arg = g.arg
      BY <3>3 DEF RequestInv
    <3>5. f \in FrameType /\ g \in FrameType
      BY <3>3 DEF TypeOK
    <3>6. f = g
      BY <3>2, <3>4, <3>5 DEF FrameType
    <3> QED
      BY <3>2, <3>6 DEF Fresh, Known
  <2> QED
    BY <2>1, <2>2, <2>3 DEF Acks
<1>2. ASSUME a.type = "PUBREC", NEW y \in ToSet(outgoing[p]), y.sent > 0
      PROVE  \/ FrameOf(y) = Frame("PUBREL", a.id, 0)
             \/ FrameOf(y).type = "PUBLISH" /\ FrameOf(y).id = a.id
  <2>1. PICK f \in Published(p) : f.id = a.id /\ f.arg = 2
    BY <1>2 DEF SafeInv, Acknowledged, AcknowledgesHeld, Answers
  <2>2. f \in Outgoing(p) \/ Pubrel(f) \in Outgoing(p)
    <3>1. Abandoned(p) = {}
      BY DEF Abandoned
    <3> QED
      BY <1>2, <2>1, <3>1 DEF CareInv, Cared, InHand, GivenUp
  <2>3. CASE f \in Outgoing(p)
    <3>1. f.type = "PUBLISH" /\ RequestType(a.type) = "PUBLISH"
      BY <1>2, <2>1 DEF SafeInv, Identified, RequestType
    <3>2. PICK x \in ToSet(outgoing[p]) : FrameOf(x) = f /\ x.sent > 0
      BY <1>1, <2>1, <2>3, <3>1, SentOrNot
    <3> QED
      BY <1>2, <2>1, <3>1, <3>2, OneFlies
  <2>4. CASE Pubrel(f) \in Outgoing(p)
    <3>1. Pubrel(f) \notin Unsent(p) /\ Pubrel(f) = Frame("PUBREL", a.id, 0)
      BY <2>1, PubrelOf DEF Fresh, Pubrel
    <3>2. PICK x \in ToSet(outgoing[p]) : FrameOf(x) = Pubrel(f) /\ x.sent > 0
      BY <2>4, <3>1, SentOrNot
    <3> QED
      BY <1>2, <3>1, <3>2, OneFlies
  <2> QED
    BY <2>2, <2>3, <2>4
<1> QED
  BY <1>1, <1>2

(* Removing the items of a type and packet id.                              *)
LEMMA AckedItems ==
    ASSUME NEW q \in Seq(ItemType), NEW t, NEW i
    PROVE  LET D == Matches(q, t, i)
               rest == Without(q, D)
           IN  /\ rest \in Seq(ItemType)
               /\ ToSet(rest) = {x \in ToSet(q) : ~(x.type = t /\ x.id = i)}
               /\ \A x, y : Before(rest, x, y) => Before(q, x, y)
               /\ D = {} => rest = q
               /\ D # {} => \E x \in ToSet(q) : x.type = t /\ x.id = i
<1> DEFINE D == Matches(q, t, i)
           rest == Without(q, D)
<1>1. \A k \in DOMAIN q : k \in D <=> q[k].type = t /\ q[k].id = i
  BY DEF Matches
<1>2. D \subseteq DOMAIN q
  BY DEF Matches
<1> HIDE DEF D
<1>3. /\ ToSet(rest) = {q[k] : k \in DOMAIN q \ D}
      /\ \A x, y : Before(rest, x, y) =>
           \E j, k \in DOMAIN q \ D : j < k /\ q[j] = x /\ q[k] = y
  BY WithoutOrder
<1>4. rest \in Seq(ItemType) /\ (D = {} => rest = q)
  BY WithoutType, WithoutNothing
<1> HIDE DEF rest
<1>5. ToSet(rest) = {x \in ToSet(q) : ~(x.type = t /\ x.id = i)}
  <2>1. ToSet(q) = {q[k] : k \in DOMAIN q}
    BY DEF ToSet
  <2> QED
    BY <1>1, <1>3, <2>1
<1>6. ASSUME NEW x, NEW y, Before(rest, x, y)
      PROVE  Before(q, x, y)
  <2>1. PICK j \in DOMAIN q \ D, k \in DOMAIN q \ D : j < k /\ q[j] = x /\ q[k] = y
    BY <1>3, <1>6
  <2> QED
    BY <2>1 DEF Before
<1>7. D # {} => \E x \in ToSet(q) : x.type = t /\ x.id = i
  BY <1>1, <1>2 DEF ToSet
<1> QED
  BY <1>4, <1>5, <1>6, <1>7 DEF rest, D

(* Items of the queue.                                                      *)
LEMMA ItemsTyped ==
    ASSUME TypeOK, NEW p \in Peers
    PROVE  /\ outgoing[p] \in Seq(ItemType)
           /\ \A x \in ToSet(outgoing[p]) : x \in ItemType /\ x.sent \in Nat
           /\ \A x : FrameOf(x).type = x.type /\ FrameOf(x).id = x.id
<1>1. outgoing[p] \in Seq(ItemType)
  BY DEF TypeOK
<1>2. ToSet(outgoing[p]) \subseteq ItemType
  BY <1>1, QueueTyped
<1> QED
  BY <1>1, <1>2 DEF ItemType, FrameOf, Frame

(* A queue with one more entry at its head.                                 *)
LEMMA PushedEntries ==
    ASSUME NEW S, NEW q \in Seq(S), NEW h \in S
    PROVE  /\ <<h>> \o q \in Seq(S) /\ <<h>> \o q # <<>> /\ Head(<<h>> \o q) = h
           /\ ToSet(<<h>> \o q) = {h} \cup ToSet(q)
           /\ \A x, y : Before(<<h>> \o q, x, y) <=>
                Before(q, x, y) \/ (x = h /\ y \in ToSet(q))
<1>1. <<h>> \in Seq(S)
  OBVIOUS
<1>2. <<h>> \o q \in Seq(S) /\ <<h>> \o q # <<>> /\ Head(<<h>> \o q) = h
  BY <1>1
<1>3. /\ ToSet(<<h>> \o q) = ToSet(<<h>>) \cup ToSet(q)
      /\ \A x, y : Before(<<h>> \o q, x, y) <=>
           \/ Before(<<h>>, x, y) \/ Before(q, x, y)
           \/ x \in ToSet(<<h>>) /\ y \in ToSet(q)
  BY <1>1, ConcatEntries
<1>4. ToSet(<<h>>) = {h} /\ \A x, y : ~Before(<<h>>, x, y)
  BY SingleEntry
<1> QED
  BY <1>2, <1>3, <1>4

(* No frame that was never written comes to the other stream.               *)
LEMMA FreshKept ==
    ASSUME NEW p \in Peers, Fresh(p), NEW F, Carries(Other(p), F), Receipts(Other(p)),
           \A f \in Unsent(p)' : f \in Unsent(p) /\ f \notin F
    PROVE  Fresh(p)'
<1>1. Known(Other(p))' \subseteq Known(Other(p)) \cup F
  BY DEF Carries, Receipts, Known
<1> QED
  BY <1>1 DEF Fresh

(* stream_mqtt_handle_received_frame: an acknowledgement either stops the   *)
(* timer with the frame it was for, or found nothing.                       *)
LEMMA FlightAck ==
    ASSUME TypeOK, NEW p \in Peers, HandleReceivedFrame(p), NEW f, f = Head(buffer[p]),
           ReceiveAck(p, f), SafeInv(p), CareInv(p), RequestInv(p), FlightInv(p),
           Receipts(Other(p))
    PROVE  FlightInv(p)'
<1> SUFFICES ASSUME abandoned'[p] = {} PROVE Lined(p)' /\ Counted(p)' /\ Fresh(p)'
  BY DEF FlightInv
<1> DEFINE q == outgoing[p]
           t == RequestType(f.type)
           D == Matches(q, t, f.id)
           rest == Without(q, D)
           pubrel == Frame("PUBREL", f.id, 0)
<1>1. /\ f \in FrameType /\ f \in OnWire(p)
      /\ \A frames \in Seq(FrameType) : Writes(p, frames) => Carries(Other(p), ToSet(frames))
      /\ UNCHANGED net => Carries(Other(p), {})
      /\ UNCHANGED <<published, abandoned>>
  BY HandlingWay
<1>2. /\ f.type \in Acks \cup {"SUBACK", "UNSUBACK"}
      /\ \/ /\ f.type = "PUBREC" /\ Writes(p, <<pubrel>>)
            /\ outgoing'[p] = <<Item(pubrel, 1)>> \o rest
            /\ resend_timer'[p] = Started(ResendTimeout) /\ resend_attempts'[p] = 0
         \/ /\ f.type # "PUBREC" /\ UNCHANGED net
            /\ outgoing'[p] = rest
            /\ resend_timer'[p] = IF D # {} THEN Stopped ELSE resend_timer[p]
            /\ resend_attempts'[p] = resend_attempts[p]
  BY DEF ReceiveAck, Acks, StartResending, SetResendTimer, TimerAfterAck, InsertHead, TypeOK
<1>3. abandoned[p] = {} /\ Lined(p) /\ Counted(p) /\ Fresh(p)
  BY <1>1 DEF FlightInv
<1>4. /\ \A g \in Outgoing(p) : g.type = t /\ g.id = f.id => g \notin Unsent(p)
      /\ f.type = "PUBREC" =>
           \A y \in ToSet(q) : y.sent > 0 =>
               \/ FrameOf(y) = pubrel
               \/ FrameOf(y).type = "PUBLISH" /\ FrameOf(y).id = f.id
  BY <1>1, <1>2, <1>3, AckedFlies
<1>5. /\ q \in Seq(ItemType)
      /\ \A x \in ToSet(q) : x \in ItemType /\ x.sent \in Nat
      /\ \A x : FrameOf(x).type = x.type /\ FrameOf(x).id = x.id
  BY ItemsTyped
<1>6. /\ rest \in Seq(ItemType)
      /\ ToSet(rest) = {x \in ToSet(q) : ~(x.type = t /\ x.id = f.id)}
      /\ \A x, y : Before(rest, x, y) => Before(q, x, y)
      /\ D = {} => rest = q
      /\ D # {} => \E x \in ToSet(q) : x.type = t /\ x.id = f.id
  BY <1>5, AckedItems
<1> HIDE DEF D, rest, t
<1>7. ASSUME D # {} PROVE \A x \in ToSet(rest) : x.sent = 0
  <2>1. PICK z \in ToSet(q) : z.type = t /\ z.id = f.id
    BY <1>6, <1>7
  <2>2. FrameOf(z) \in Outgoing(p) /\ FrameOf(z) \notin Unsent(p)
    BY <1>4, <1>5, <2>1 DEF Outgoing
  <2>3. z.sent > 0
    BY <1>5, <2>2 DEF Unsent
  <2>4. \A x \in ToSet(q) : x.sent > 0 => FrameOf(x) = FrameOf(z)
    BY <1>3, <2>3, OneFlies
  <2>5. \A x \in ToSet(rest) : ~(x.sent > 0)
    BY <1>5, <1>6, <2>1, <2>4
  <2> QED
    BY <1>5, <1>6, <2>5
<1>8. CASE f.type # "PUBREC"
  <2>1. outgoing'[p] = rest /\ Carries(Other(p), {})
    BY <1>1, <1>2, <1>8
  <2>2. Lined(p)'
    BY <1>1, <1>3, <1>6, <2>1 DEF Lined
  <2>3. Counted(p)'
    <3>1. CASE D = {}
      BY <1>2, <1>3, <1>6, <1>8, <3>1 DEF Counted
    <3>2. CASE D # {}
      <4>1. rest # <<>> => Head(rest) \in ToSet(rest)
        <5>1. rest \in Seq(ItemType)
          BY <1>6
        <5> QED
          BY <5>1, HeadEntries
      <4>2. resend_attempts'[p] \in Nat /\ ResendAttempts \in Nat
        BY <1>2, <1>8, NumbersAssumption DEF TypeOK
      <4> QED
        BY <1>7, <2>1, <3>2, <4>1, <4>2 DEF Counted
    <3> QED
      BY <3>1, <3>2
  <2>4. Unsent(p)' \subseteq Unsent(p)
    BY <1>6, <2>1 DEF Unsent
  <2> QED
    BY <1>3, <2>1, <2>2, <2>3, <2>4, FreshKept
<1>9. CASE f.type = "PUBREC"
  <2> DEFINE item == Item(pubrel, 1)
  <2>1. /\ outgoing'[p] = <<item>> \o rest /\ Writes(p, <<pubrel>>)
        /\ resend_timer'[p] = Started(ResendTimeout) /\ resend_attempts'[p] = 0
    BY <1>2, <1>9
  <2>2. pubrel \in FrameType /\ pubrel.type = "PUBREL" /\ t = "PUBLISH"
    BY <1>1, <1>9, AnswerTyped DEF FrameTypes, t, RequestType
  <2>3. /\ item \in ItemType /\ FrameOf(item) = pubrel /\ item.type = "PUBREL" /\ item.sent = 1
    BY <2>2, FrameTyped, FrameOfItem DEF Item
  <2> HIDE DEF item, pubrel
  <2>4. rest \in Seq(ItemType)
    BY <1>6
  <2>5. /\ ToSet(<<item>> \o rest) = {item} \cup ToSet(rest)
        /\ \A x, y : Before(<<item>> \o rest, x, y) =>
             Before(rest, x, y) \/ (x = item /\ y \in ToSet(rest))
        /\ Head(<<item>> \o rest) = item
    BY <2>3, <2>4, PushedEntries
  <2>6. \A y \in ToSet(rest) : y.sent > 0 => FrameOf(y) = pubrel
    BY <1>4, <1>5, <1>6, <1>9, <2>2
  <2>7. Lined(p)'
    <3> SUFFICES ASSUME NEW x, NEW y, Before(outgoing'[p], x, y)
                 PROVE  /\ y.sent > 0 => x.sent > 0 /\ FrameOf(x) = FrameOf(y)
                        /\ FrameOf(x) = FrameOf(y) => x.type = "PUBREL"
                        /\ x.type = "PUBLISH" /\ y.type = "PUBLISH"
                             => Before(published'[p], FrameOf(x), FrameOf(y))
      BY DEF Lined
    <3>1. CASE Before(rest, x, y)
      BY <1>1, <1>3, <1>6, <3>1 DEF Lined
    <3>2. CASE x = item /\ y \in ToSet(rest)
      BY <2>3, <2>6, <3>2
    <3> QED
      BY <2>1, <2>5, <3>1, <3>2
  <2>8. Counted(p)'
    <3>1. Running(resend_timer'[p])
      BY <2>1, NumbersAssumption DEF Running, Started
    <3>2. Head(outgoing'[p]) = item
      BY <2>1, <2>5
    <3>3. item.sent <= ResendAttempts /\ item.sent <= resend_attempts'[p] + 1
      BY <2>1, <2>3, NumbersAssumption
    <3> QED
      BY <1>3, <1>6, <2>1, <2>5, <3>1, <3>2, <3>3 DEF Counted
  <2>9. Carries(Other(p), {pubrel})
    <3>1. <<pubrel>> \in Seq(FrameType) /\ ToSet(<<pubrel>>) = {pubrel}
      BY <2>2, SingleEntry
    <3> QED
      BY <1>1, <2>1, <3>1
  <2>10. \A g \in Unsent(p)' : g \in Unsent(p) /\ g \notin {pubrel}
    <3>1. Unsent(p)' \subseteq Unsent(p)
      BY <1>6, <2>1, <2>3, <2>5 DEF Unsent
    <3> QED
      BY <1>3, <2>2, <3>1 DEF Fresh
  <2> QED
    BY <1>3, <2>7, <2>8, <2>9, <2>10, FreshKept
<1> QED
  BY <1>8, <1>9

(* stream_mqtt_publish_message, stream_mqtt_subscribe and                   *)
(* stream_mqtt_unsubscribe: a frame written at once finds no other, and one *)
(* that finds another is put behind it.                                     *)
LEMMA FlightSubmit ==
    ASSUME TypeOK, NEW p \in Peers, NEW f \in FrameType, NEW acknowledged \in BOOLEAN,
           Submit(p, f, acknowledged), UNCHANGED <<buffer, abandoned>>,
           SafeInv(p), FlightInv(p), Receipts(Other(p)),
           f.type # "PUBREL", f \notin Outgoing(p), f \notin Known(Other(p)),
           published'[p] = IF f.type = "PUBLISH" THEN Append(published[p], f) ELSE published[p]
    PROVE  FlightInv(p)'
<1> SUFFICES ASSUME abandoned'[p] = {} PROVE Lined(p)' /\ Counted(p)' /\ Fresh(p)'
  BY DEF FlightInv
<1> DEFINE q == outgoing[p]
           new(n) == Item(f, n)
<1>1. /\ q \in Seq(ItemType)
      /\ \A x \in ToSet(q) : x \in ItemType /\ x.sent \in Nat
      /\ \A x : FrameOf(x).type = x.type /\ FrameOf(x).id = x.id
  BY ItemsTyped
<1>2. Lined(p) /\ Counted(p) /\ Fresh(p)
  BY DEF FlightInv
<1>3. \A n \in Nat : new(n) \in ItemType /\ FrameOf(new(n)) = f /\ new(n).sent = n
  BY FrameTyped, FrameOfItem DEF Item
<1>4. CASE q = <<>>
  <2>1. /\ outgoing'[p] = <<>> \/ outgoing'[p] = <<new(1)>>
        /\ outgoing'[p] # <<>> =>
             /\ resend_timer'[p] = Started(ResendTimeout) /\ resend_attempts'[p] = 0
    BY <1>4 DEF Submit, IsIdle, StartResending, SetResendTimer, TypeOK
  <2>2. Carries(Other(p), {f})
    BY SubmitQueues
  <2> HIDE DEF new
  <2>3. /\ \A x, y : ~Before(outgoing'[p], x, y)
        /\ \A x \in ToSet(outgoing'[p]) : outgoing'[p] # <<>> /\ x = new(1)
        /\ outgoing'[p] # <<>> => Head(outgoing'[p]) = new(1)
    <3>1. CASE outgoing'[p] = <<>>
      BY <3>1, NoEntry
    <3>2. CASE outgoing'[p] = <<new(1)>>
      BY <3>2, SingleEntry
    <3> QED
      BY <2>1, <3>1, <3>2
  <2>4. Lined(p)'
    BY <2>3 DEF Lined
  <2>5. Counted(p)'
    <3>1. Running(Started(ResendTimeout)) /\ 1 <= ResendAttempts
      BY NumbersAssumption DEF Running, Started
    <3> QED
      BY <1>3, <2>1, <2>3, <3>1 DEF Counted
  <2>6. Unsent(p)' = {}
    BY <1>3, <2>3 DEF Unsent
  <2> QED
    BY <1>2, <2>2, <2>4, <2>5, <2>6, FreshKept
<1>5. CASE q # <<>>
  <2>1. /\ outgoing'[p] = Append(q, new(0))
        /\ UNCHANGED <<net, resend_timer, resend_attempts>>
    BY <1>5 DEF Submit, IsIdle, TypeOK
  <2>2. Carries(Other(p), {})
    BY <2>1, WireKept DEF Wire
  <2> HIDE DEF new, q
  <2>3. /\ ToSet(outgoing'[p]) = ToSet(q) \cup {new(0)}
        /\ \A x, y : Before(outgoing'[p], x, y) <=>
             Before(q, x, y) \/ (x \in ToSet(q) /\ y = new(0))
        /\ Head(outgoing'[p]) = Head(q)
    <3>1. outgoing'[p] = q \o <<new(0)>> /\ <<new(0)>> \in Seq(ItemType)
      BY <1>1, <1>3, <2>1
    <3>2. /\ ToSet(q \o <<new(0)>>) = ToSet(q) \cup ToSet(<<new(0)>>)
          /\ \A x, y : Before(q \o <<new(0)>>, x, y) <=>
               \/ Before(q, x, y) \/ Before(<<new(0)>>, x, y)
               \/ x \in ToSet(q) /\ y \in ToSet(<<new(0)>>)
      BY <1>1, <3>1, ConcatEntries
    <3>3. ToSet(<<new(0)>>) = {new(0)} /\ \A x, y : ~Before(<<new(0)>>, x, y)
      BY SingleEntry
    <3>4. Head(q \o <<new(0)>>) = Head(q)
      BY <1>1, <1>5, <3>1
    <3> QED
      BY <3>1, <3>2, <3>3, <3>4
  <2>4. Lined(p)'
    <3> SUFFICES ASSUME NEW x, NEW y, Before(outgoing'[p], x, y)
                 PROVE  /\ y.sent > 0 => x.sent > 0 /\ FrameOf(x) = FrameOf(y)
                        /\ FrameOf(x) = FrameOf(y) => x.type = "PUBREL"
                        /\ x.type = "PUBLISH" /\ y.type = "PUBLISH"
                             => Before(published'[p], FrameOf(x), FrameOf(y))
      BY DEF Lined
    <3>1. /\ \A a, b : Before(published[p], a, b) => Before(published'[p], a, b)
          /\ f.type = "PUBLISH" => \A a \in Published(p) : Before(published'[p], a, f)
      <4>1. published[p] \in Seq(FrameType) /\ <<f>> \in Seq(FrameType)
        BY DEF TypeOK
      <4>2. f.type = "PUBLISH" => published'[p] = published[p] \o <<f>>
        BY <4>1
      <4>3. \A a, b : Before(published[p] \o <<f>>, a, b) <=>
              \/ Before(published[p], a, b) \/ Before(<<f>>, a, b)
              \/ a \in ToSet(published[p]) /\ b \in ToSet(<<f>>)
        BY <4>1, ConcatEntries
      <4>4. ToSet(<<f>>) = {f}
        BY SingleEntry
      <4> QED
        BY <4>2, <4>3, <4>4 DEF Published
    <3>2. CASE Before(q, x, y)
      BY <1>2, <3>1, <3>2 DEF Lined, q
    <3>3. CASE x \in ToSet(q) /\ y = new(0)
      <4>1. FrameOf(x) \in Outgoing(p) /\ FrameOf(y) = f /\ y.sent = 0
        BY <1>3, <3>3 DEF Outgoing, q
      <4>2. x.type = "PUBLISH" => FrameOf(x) \in Published(p)
        BY <1>1, <4>1 DEF SafeInv, Genuine
      <4>3. y.type = "PUBLISH" => f.type = "PUBLISH"
        BY <1>1, <4>1
      <4> QED
        BY <3>1, <4>1, <4>2, <4>3
    <3> QED
      BY <2>3, <3>2, <3>3
  <2>5. Counted(p)'
    <3>1. 0 <= ResendAttempts /\ ~(0 > 0)
      BY NumbersAssumption
    <3> QED
      BY <1>2, <1>3, <1>5, <2>1, <2>3, <3>1 DEF Counted, q
  <2>6. Unsent(p)' \subseteq Unsent(p) \cup {f}
    BY <1>3, <2>3 DEF Unsent, q
  <2>7. Known(Other(p))' \subseteq Known(Other(p))
    BY <2>2 DEF Carries, Receipts, Known
  <2> QED
    BY <1>2, <2>4, <2>5, <2>6, <2>7 DEF Fresh
<1> QED
  BY <1>4, <1>5

(* What stream_mqtt_do_time writes: a ping, then the frames given.          *)
LEMMA TimeWays ==
    ASSUME TypeOK, NEW p \in Peers, NEW frames \in Seq(FrameType), TimeWrites(p, frames),
           UNCHANGED buffer
    PROVE  \E more \in Seq(FrameType) :
             /\ ToSet(more) \subseteq {Frame("PINGREQ", NoId, 0)} \cup ToSet(frames)
             /\ Wire(Other(p))' = IF alive[Other(p)] THEN Wire(Other(p)) \o more
                                                     ELSE Wire(Other(p))
             /\ Carries(Other(p), {Frame("PINGREQ", NoId, 0)} \cup ToSet(frames))
<1> DEFINE ping == Frame("PINGREQ", NoId, 0)
           first == IF PingDue(p) THEN <<ping>> ELSE <<>>
           more == first \o frames
<1>1. ping \in FrameType
  BY FrameTyped DEF FrameTypes
<1> HIDE DEF ping
<1>2. first \in Seq(FrameType) /\ ToSet(first) \subseteq {ping}
  <2>1. ToSet(<<ping>>) = {ping} /\ ToSet(<<>>) = {}
    BY SingleEntry, NoEntry
  <2> QED
    BY <1>1, <2>1
<1>3. Writes(p, more)
  BY DEF TimeWrites, ping
<1> HIDE DEF first
<1>4. more \in Seq(FrameType) /\ ToSet(more) = ToSet(first) \cup ToSet(frames)
  BY <1>2, ConcatEntries
<1> HIDE DEF more
<1>5. /\ Wire(Other(p))' = IF alive[Other(p)] THEN Wire(Other(p)) \o more ELSE Wire(Other(p))
      /\ Carries(Other(p), ToSet(more))
  BY <1>3, <1>4, WireWritten
<1>6. ToSet(more) \subseteq {ping} \cup ToSet(frames)
  BY <1>2, <1>4
<1>7. Carries(Other(p), {ping} \cup ToSet(frames))
  BY <1>5, <1>6, CarriesMore
<1> QED
  BY <1>4, <1>5, <1>6, <1>7 DEF ping

(* The queue with its head written once more.                               *)
LEMMA WrittenItems ==
    ASSUME NEW q \in Seq(ItemType), q # <<>>
    PROVE  /\ Head(q) \in ItemType /\ Head(q) \in ToSet(q)
           /\ ToSet(Tail(q)) \subseteq ToSet(q)
           /\ \A y \in ToSet(Tail(q)) : Before(q, Head(q), y)
           /\ \A x, y : Before(Tail(q), x, y) => Before(q, x, y)
           /\ \E w \in ItemType :
                /\ w.sent = Head(q).sent + 1 /\ w.type = Head(q).type
                /\ FrameOf(w) = FrameOf(Head(q))
                /\ Head(Written(q)) = w /\ Written(q) # <<>>
                /\ ToSet(Written(q)) = {w} \cup ToSet(Tail(q))
                /\ \A x, y : Before(Written(q), x, y) <=>
                     Before(Tail(q), x, y) \/ (x = w /\ y \in ToSet(Tail(q)))
<1> DEFINE h == Head(q)
           t == Tail(q)
           w == [q[1] EXCEPT !.sent = @ + 1]
<1>1. /\ h \in ItemType /\ t \in Seq(ItemType) /\ ToSet(q) = {h} \cup ToSet(t)
      /\ \A x, y : Before(q, x, y) <=> Before(t, x, y) \/ (x = h /\ y \in ToSet(t))
  BY HeadEntries
<1>2. h = q[1] /\ Written(q) = <<w>> \o t
  BY DEF Written, InsertHead
<1>3. w \in ItemType /\ w.sent = h.sent + 1 /\ w.type = h.type /\ FrameOf(w) = FrameOf(h)
  BY <1>1, <1>2 DEF ItemType, FrameOf, Frame
<1> HIDE DEF h, t, w
<1>4. /\ <<w>> \o t # <<>> /\ Head(<<w>> \o t) = w
      /\ ToSet(<<w>> \o t) = {w} \cup ToSet(t)
      /\ \A x, y : Before(<<w>> \o t, x, y) <=>
           Before(t, x, y) \/ (x = w /\ y \in ToSet(t))
  BY <1>1, <1>3, PushedEntries
<1> QED
  BY <1>1, <1>2, <1>3, <1>4 DEF h, t

(* stream_mqtt_do_time writes the head of outgoing: again while the timer   *)
(* and the attempts allow, or because no frame is in flight.                *)
LEMMA FlightTime ==
    ASSUME TypeOK, NEW p \in Peers, DoTime(p), QueuesRequests, FlightInv(p), Receipts(Other(p))
    PROVE  FlightInv(p)'
<1> SUFFICES ASSUME abandoned'[p] = {} PROVE Lined(p)' /\ Counted(p)' /\ Fresh(p)'
  BY DEF FlightInv
<1> DEFINE q == outgoing[p]
           ping == Frame("PINGREQ", NoId, 0)
<1>1. UNCHANGED <<published, buffer>>
  BY DEF DoTime, callVars
<1>2. /\ q \in Seq(ItemType)
      /\ \A x \in ToSet(q) : x \in ItemType /\ x.sent \in Nat
      /\ \A x : FrameOf(x).type = x.type /\ FrameOf(x).id = x.id
  BY ItemsTyped
<1>3. abandoned[p] = {}
  BY DEF DoTime, ResendHead, AbandonHead, WriteNext, NothingToWrite, resendVars, TypeOK
<1>4. Lined(p) /\ Counted(p) /\ Fresh(p)
  BY <1>3 DEF FlightInv
<1>5. \A f \in Unsent(p) : f.type \in Waiters /\ f # ping
  <2>1. Unsent(p) \subseteq Outgoing(p)
    BY DEF Unsent, Outgoing
  <2> QED
    BY <2>1 DEF QueuesRequests, Waiters, Frame
<1>6. ASSUME q # <<>>, TimeWrites(p, <<FrameOf(Head(q))>>), outgoing'[p] = Written(q),
             resend_timer'[p] = Started(ResendTimeout),
             \/ /\ resend_attempts[p] + 1 < ResendAttempts
                /\ resend_attempts'[p] = resend_attempts[p] + 1
             \/ /\ ~Running(resend_timer[p])
                /\ resend_attempts'[p] = resend_attempts[p]
      PROVE  Lined(p)' /\ Counted(p)' /\ Fresh(p)'
  <2> DEFINE h == Head(q)
             t == Tail(q)
  <2>1. /\ h \in ItemType /\ h \in ToSet(q) /\ ToSet(t) \subseteq ToSet(q)
        /\ \A y \in ToSet(t) : Before(q, h, y)
        /\ \A x, y : Before(t, x, y) => Before(q, x, y)
    BY <1>2, <1>6, WrittenItems
  <2>2. PICK w \in ItemType :
          /\ w.sent = h.sent + 1 /\ w.type = h.type /\ FrameOf(w) = FrameOf(h)
          /\ Head(outgoing'[p]) = w /\ outgoing'[p] # <<>>
          /\ ToSet(outgoing'[p]) = {w} \cup ToSet(t)
          /\ \A x, y : Before(outgoing'[p], x, y) <=>
               Before(t, x, y) \/ (x = w /\ y \in ToSet(t))
    BY <1>2, <1>6, WrittenItems
  <2> HIDE DEF h, t
  <2>3. Lined(p)'
    <3> SUFFICES ASSUME NEW x, NEW y, Before(outgoing'[p], x, y)
                 PROVE  /\ y.sent > 0 => x.sent > 0 /\ FrameOf(x) = FrameOf(y)
                        /\ FrameOf(x) = FrameOf(y) => x.type = "PUBREL"
                        /\ x.type = "PUBLISH" /\ y.type = "PUBLISH"
                             => Before(published'[p], FrameOf(x), FrameOf(y))
      BY DEF Lined
    <3>1. CASE Before(t, x, y)
      BY <1>1, <1>4, <2>1, <3>1 DEF Lined
    <3>2. CASE x = w /\ y \in ToSet(t)
      <4>1. Before(q, h, y) /\ w.sent > 0
        BY <1>2, <2>1, <2>2, <3>2
      <4> QED
        BY <1>1, <1>4, <2>2, <3>2, <4>1 DEF Lined
    <3> QED
      BY <2>2, <3>1, <3>2
  <2>4. Counted(p)'
    <3>1. Running(resend_timer'[p])
      BY <1>6, NumbersAssumption DEF Running, Started
    <3>2. /\ h.sent \in Nat /\ h.sent <= resend_attempts[p] + 1
          /\ Running(resend_timer[p]) \/ ~(h.sent > 0)
          /\ resend_attempts[p] \in Nat /\ ResendAttempts \in Nat /\ ResendAttempts > 0
      BY <1>2, <1>4, <1>6, <2>1, NumbersAssumption DEF Counted, TypeOK, h
    <3>3. w.sent <= ResendAttempts /\ w.sent <= resend_attempts'[p] + 1
      BY <1>6, <2>2, <3>2
    <3> QED
      BY <1>4, <2>1, <2>2, <3>1, <3>3 DEF Counted
  <2>5. Carries(Other(p), {ping} \cup {FrameOf(h)})
    <3>1. FrameOf(h) \in FrameType
      BY <2>1, FrameTyped
    <3>2. <<FrameOf(h)>> \in Seq(FrameType) /\ ToSet(<<FrameOf(h)>>) = {FrameOf(h)}
      BY <3>1, SingleEntry
    <3>3. TimeWrites(p, <<FrameOf(h)>>)
      BY <1>6 DEF h
    <3> QED
      BY <1>1, <3>2, <3>3, TimeWays
  <2>6. \A f \in Unsent(p)' : f \in Unsent(p) /\ f \notin {ping} \cup {FrameOf(h)}
    <3> SUFFICES ASSUME NEW x \in ToSet(outgoing'[p]), x.sent = 0
                 PROVE  FrameOf(x) \in Unsent(p) /\ FrameOf(x) # ping /\ FrameOf(x) # FrameOf(h)
      BY DEF Unsent
    <3>1. x \in ToSet(t)
      BY <1>2, <2>1, <2>2
    <3>2. FrameOf(x) \in Unsent(p)
      BY <2>1, <3>1 DEF Unsent
    <3>3. FrameOf(x) # FrameOf(h)
      BY <1>2, <1>4, <2>1, <3>1, <3>2 DEF Lined, Fresh
    <3> QED
      BY <1>5, <3>2, <3>3
  <2> QED
    BY <1>4, <2>3, <2>4, <2>5, <2>6, FreshKept
<1>7. CASE ResendHead(p)
  <2>1. /\ q # <<>> /\ TimeWrites(p, <<FrameOf(Head(q))>>) /\ outgoing'[p] = Written(q)
        /\ resend_timer'[p] = Started(ResendTimeout)
        /\ resend_attempts[p] + 1 < ResendAttempts
        /\ resend_attempts'[p] = resend_attempts[p] + 1
    BY <1>7 DEF ResendHead, ResendDue, AttemptsLeft, SetResendTimer, TypeOK
  <2> QED
    BY <1>6, <2>1
<1>8. CASE WriteNext(p)
  <2>1. /\ q # <<>> /\ TimeWrites(p, <<FrameOf(Head(q))>>) /\ outgoing'[p] = Written(q)
        /\ resend_timer'[p] = Started(ResendTimeout)
        /\ ~Running(resend_timer[p])
        /\ resend_attempts'[p] = resend_attempts[p]
    BY <1>8 DEF WriteNext, NextDue, SetResendTimer, TypeOK
  <2> QED
    BY <1>6, <2>1
<1>9. CASE NothingToWrite(p)
  <2>1. TimeWrites(p, <<>>) /\ UNCHANGED <<outgoing, resend_attempts, resend_timer>>
    BY <1>9 DEF NothingToWrite, resendVars
  <2>2. <<>> \in Seq(FrameType) /\ ToSet(<<>>) = {}
    BY NoEntry
  <2> HIDE DEF ping
  <2>3. Carries(Other(p), {ping})
    <3>1. Carries(Other(p), {ping} \cup ToSet(<<>>))
      BY <1>1, <2>1, <2>2, TimeWays DEF ping
    <3> QED
      BY <2>2, <3>1
  <2>4. Unsent(p)' = Unsent(p)
    BY <2>1 DEF Unsent
  <2>5. Fresh(p)'
    <3>1. \A f \in Unsent(p)' : f \in Unsent(p) /\ f \notin {ping}
      BY <1>5, <2>4
    <3> QED
      BY <1>4, <2>3, <3>1, FreshKept
  <2> QED
    BY <1>1, <1>4, <2>1, <2>5 DEF Lined, Counted
<1>10. ~AbandonHead(p)
  <2> SUFFICES ASSUME AbandonHead(p) PROVE FALSE
    OBVIOUS
  <2> DEFINE h == Head(q)
  <2>1. abandoned' = [abandoned EXCEPT ![p] = @ \cup {h}]
    BY DEF AbandonHead
  <2>2. abandoned \in [Peers -> SUBSET ItemType]
    BY DEF TypeOK
  <2> HIDE DEF h
  <2>3. abandoned'[p] = abandoned[p] \cup {h}
    BY <2>1, <2>2
  <2> QED
    BY <2>3
<1> QED
  BY <1>7, <1>8, <1>9, <1>10 DEF DoTime

-----------------------------------------------------------------------------
(* The steps by what they do to the queue outgoing of one stream.          *)

\* The step leaves outgoing of p with its timer and attempts, and what p
\* published, as it is; it brings no frame that waits to the other stream.
Leaves(p) ==
    /\ outgoing'[p] = outgoing[p] /\ resend_attempts'[p] = resend_attempts[p]
    /\ published'[p] = published[p] /\ abandoned'[p] = abandoned[p]
    /\ Running(resend_timer[p]) => Running(resend_timer'[p])
    /\ Idle(p) \/ TakesPublish(p) \/ TakesPubrel(p)

\* p handles an acknowledgement.
HandlesAnAck(p) == HandleReceivedFrame(p) /\ ReceiveAck(p, Head(buffer[p]))

(* A frame handled by either stream.                                        *)
LEMMA HandlingLeaves ==
    ASSUME TypeOK, NEW r \in Peers, HandleReceivedFrame(r)
    PROVE  /\ Leaves(Other(r))
           /\ HandlesAnAck(r) \/ Leaves(r)
<1> DEFINE f == Head(buffer[r])
<1>0. Other(r) \in Peers /\ Other(r) # r /\ Other(Other(r)) = r
  BY OtherPeer
<1>1. UNCHANGED <<published, abandoned>> /\ outgoing'[Other(r)] = outgoing[Other(r)]
  BY HandlingWay
<1>2. \/ ReceiveConnect(r, f) \/ ReceiveConnack(r, f) \/ ReceiveForApplication(r, f)
      \/ ReceivePublish(r, f) \/ ReceiveAck(r, f) \/ ReceivePubrel(r, f)
      \/ ReceivePing(r, f)
  BY DEF HandleReceivedFrame
<1>3. CASE ReceiveAck(r, f)
  <2>1. Idle(Other(r))
    BY <1>3, HandlesAck
  <2>2. /\ resend_attempts'[Other(r)] = resend_attempts[Other(r)]
        /\ resend_timer'[Other(r)] = resend_timer[Other(r)]
    BY <1>0, <1>3 DEF ReceiveAck, StartResending, SetResendTimer, TypeOK
  <2> QED
    BY <1>1, <1>3, <2>1, <2>2 DEF Leaves, HandlesAnAck
<1>4. CASE ~ReceiveAck(r, f)
  <2> HIDE DEF f
  <2>1. UNCHANGED <<outgoing, resend_attempts, resend_timer>>
    BY <1>2, <1>4
    DEF ReceiveConnect, ReceiveConnack, ReceiveForApplication, ReceivePublish,
        ReceivePubrel, ReceivePing
  <2>2. /\ Idle(Other(r)) \/ TakesPublish(Other(r)) \/ TakesPubrel(Other(r))
        /\ Idle(r)
    BY <1>2, <1>4, HandlesOther, HandlesPublish, HandlesPubrel DEF f
  <2> QED
    BY <1>1, <2>1, <2>2 DEF Leaves
<1> QED
  BY <1>3, <1>4

(* Only publishing, a request, stream_mqtt_do_time and an acknowledgement   *)
(* touch the queue.                                                         *)
LEMMA StepLeaves ==
    ASSUME TypeOK, QueuesRequests, [Next]_vars, NEW p \in Peers
    PROVE  \/ Publish(p) \/ Request(p) \/ DoTime(p) \/ HandlesAnAck(p)
           \/ Leaves(p)
<1>1. CASE \/ UNCHANGED vars \/ Tick
           \/ \E r \in Peers : \/ Connect(r) \/ Answer(r) \/ Disconnect(r) \/ ByteCall(r)
                               \/ Read(r) \/ TakeFrame(r) \/ Lose(r) \/ Crash(r)
  <2>1. UNCHANGED <<outgoing, published, abandoned, resend_attempts>>
    BY <1>1 DEF Tick, Connect, Answer, Disconnect, ByteCall, Read, TakeFrame, Lose, Crash,
                vars, resendVars, callVars
  <2>2. Running(resend_timer[p]) => Running(resend_timer'[p])
    <3>1. CASE Tick
      <4>1. resend_timer'[p] = Ticked(resend_timer[p]) /\ resend_timer[p] \in TimerType
        BY <3>1 DEF Tick, TypeOK
      <4> QED
        BY <4>1 DEF Ticked, Running, TimerType
    <3>2. CASE ~Tick
      <4>1. UNCHANGED resend_timer
        BY <1>1, <3>2 DEF Connect, Answer, Disconnect, ByteCall, Read, TakeFrame, Lose, Crash,
                          vars, resendVars
      <4> QED
        BY <4>1
    <3> QED
      BY <3>1, <3>2
  <2> QED
    BY <1>1, <2>1, <2>2, OtherSteps DEF Leaves
<1>2. ASSUME NEW r \in Peers, Publish(r) \/ Request(r) \/ DoTime(r), r # p
      PROVE  Leaves(p)
  <2>1. Other(r) = p /\ Idle(p)
    BY <1>2, SubmitSteps, TimeSteps, OtherPeer
  <2>2. /\ resend_attempts'[p] = resend_attempts[p] /\ resend_timer'[p] = resend_timer[p]
        /\ outgoing'[p] = outgoing[p] /\ abandoned'[p] = abandoned[p]
        /\ published'[p] = published[p]
    <3>1. ASSUME NEW f, NEW acknowledged, Submit(r, f, acknowledged)
          PROVE  /\ resend_attempts'[p] = resend_attempts[p]
                 /\ resend_timer'[p] = resend_timer[p] /\ outgoing'[p] = outgoing[p]
      BY <1>2, <3>1 DEF Submit, StartResending, SetResendTimer, TypeOK
    <3>2. CASE Publish(r)
      BY <1>2, <3>1, <3>2 DEF Publish, TypeOK
    <3>3. CASE Request(r)
      BY <1>2, <3>1, <3>3 DEF Request, TypeOK
    <3>4. CASE DoTime(r)
      <4>1. published' = published
        BY <3>4 DEF DoTime, callVars
      <4>2. CASE ResendHead(r)
        BY <1>2, <4>1, <4>2 DEF ResendHead, SetResendTimer, TypeOK
      <4>3. CASE AbandonHead(r)
        BY <1>2, <4>1, <4>3 DEF AbandonHead, SetResendTimer, TypeOK
      <4>4. CASE WriteNext(r)
        BY <1>2, <4>1, <4>4 DEF WriteNext, SetResendTimer, TypeOK
      <4>5. CASE NothingToWrite(r)
        BY <4>1, <4>5 DEF NothingToWrite, resendVars
      <4> QED
        BY <3>4, <4>2, <4>3, <4>4, <4>5 DEF DoTime
    <3> QED
      BY <1>2, <3>2, <3>3, <3>4
  <2> QED
    BY <2>1, <2>2 DEF Leaves
<1>3. ASSUME NEW r \in Peers, HandleReceivedFrame(r)
      PROVE  HandlesAnAck(p) \/ Leaves(p)
  BY <1>3, HandlingLeaves, OtherPeer
<1> QED
  BY <1>1, <1>2, <1>3 DEF Next

(* A step that leaves the queue.                                            *)
LEMMA FlightStays ==
    ASSUME NEW p \in Peers, QueuesRequests, Leaves(p), FlightInv(p), Receipts(Other(p))
    PROVE  FlightInv(p)'
<1> SUFFICES ASSUME abandoned'[p] = {} PROVE Lined(p)' /\ Counted(p)' /\ Fresh(p)'
  BY DEF FlightInv
<1>1. /\ outgoing'[p] = outgoing[p] /\ resend_attempts'[p] = resend_attempts[p]
      /\ published'[p] = published[p] /\ abandoned'[p] = abandoned[p]
      /\ Running(resend_timer[p]) => Running(resend_timer'[p])
  BY DEF Leaves
<1>2. Lined(p) /\ Counted(p) /\ Fresh(p)
  BY <1>1 DEF FlightInv
<1>3. Lined(p)' /\ Counted(p)'
  BY <1>1, <1>2 DEF Lined, Counted
<1>4. PICK F : Carries(Other(p), F) /\ \A x \in F : x.type \notin Waiters
  BY DEF Leaves, Idle, TakesPublish, TakesPubrel
<1>5. Unsent(p) \subseteq Outgoing(p) /\ Unsent(p)' = Unsent(p)
  BY <1>1 DEF Unsent, Outgoing
<1>6. \A f \in Unsent(p)' : f \in Unsent(p) /\ f \notin F
  BY <1>4, <1>5 DEF QueuesRequests, Waiters
<1> QED
  BY <1>2, <1>3, <1>4, <1>6, FreshKept

(* stream_mqtt_publish, stream_mqtt_subscribe and stream_mqtt_unsubscribe:  *)
(* the application's frame is a new one.                                    *)
LEMMA FlightCall ==
    ASSUME TypeOK, NEW p \in Peers, Publish(p) \/ Request(p),
           SafeInv(p), RequestInv(p), FlightInv(p), Receipts(Other(p))
    PROVE  FlightInv(p)'
<1>1. UNCHANGED <<buffer, abandoned>>
  BY DEF Publish, Request
<1>2. CASE Publish(p)
  <2>1. PICK id \in PacketIds, qos \in QosLevels :
             /\ \A f \in ToSet(published[p]) : f.id # id
             /\ published' = [published EXCEPT ![p] = Append(@, Frame("PUBLISH", id, qos))]
             /\ Submit(p, Frame("PUBLISH", id, qos), qos > 0)
    BY <1>2 DEF Publish
  <2> DEFINE f == Frame("PUBLISH", id, qos)
  <2>2. (qos > 0) \in BOOLEAN /\ qos \in Nat
    BY AppAssumption
  <2>3. f \in FrameType /\ f.type = "PUBLISH" /\ f.id = id
    BY <2>2 DEF Frame, FrameType, FrameTypes
  <2> HIDE DEF f
  <2>4. published'[p] = IF f.type = "PUBLISH" THEN Append(published[p], f) ELSE published[p]
    BY <2>1, <2>3 DEF f, TypeOK
  <2>5. f \notin Outgoing(p) /\ f \notin Known(Other(p))
    <3>1. \A g \in Published(p) : g.id # f.id
      BY <2>1, <2>3 DEF Published
    <3> QED
      BY <2>3, <3>1, UnpublishedUnknown DEF Known
  <2>6. Submit(p, f, qos > 0)
    BY <2>1 DEF f
  <2> QED
    BY <1>1, <2>2, <2>3, <2>4, <2>5, <2>6, FlightSubmit
<1>3. CASE Request(p)
  <2>1. PICK type \in {"SUBSCRIBE", "UNSUBSCRIBE"}, id \in PacketIds :
             /\ Frame(type, id, 0) \notin requested[p]
             /\ Submit(p, Frame(type, id, 0), TRUE)
    BY <1>3 DEF Request
  <2> DEFINE f == Frame(type, id, 0)
  <2>2. f \in FrameType /\ IsRequest(f) /\ f.type # "PUBREL" /\ f.type # "PUBLISH"
    BY DEF Frame, FrameType, FrameTypes, IsRequest
  <2>3. f \notin requested[p] /\ Submit(p, f, TRUE)
    BY <2>1
  <2> HIDE DEF f
  <2>4. published'[p] = IF f.type = "PUBLISH" THEN Append(published[p], f) ELSE published[p]
    BY <1>3, <2>2 DEF Request
  <2>5. f \notin Outgoing(p) /\ f \notin OnWire(Other(p)) /\ f \notin Got(Other(p))
    BY <2>2, <2>3 DEF RequestInv
  <2>6. f \notin Waiting(Other(p))
    BY <2>2 DEF SafeInv, Identified, Genuine
  <2> QED
    BY <1>1, <2>2, <2>3, <2>4, <2>5, <2>6, FlightSubmit DEF Known
<1> QED
  BY <1>2, <1>3

\* The invariant behind OneInFlight, of both streams.
AllFlight ==
    /\ AllSafe /\ AllOnce
    /\ \A p \in Peers : CareInv(p) /\ RequestInv(p) /\ FlightInv(p)

(* Streams that stream_mqtt_open returns have no frame in flight.           *)
LEMMA FlightInit == Init => AllFlight
<1> SUFFICES ASSUME Init PROVE AllFlight
  OBVIOUS
<1>1. ASSUME NEW p \in Peers PROVE CareInv(p) /\ RequestInv(p) /\ FlightInv(p)
  <2>1. Other(p) \in Peers
    BY OtherPeer
  <2>2. CareInv(p)
    BY <2>1, InitEmpty, NoEntry DEF CareInv, Ahead
  <2>3. RequestInv(p)
    BY <2>1, InitEmpty DEF RequestInv
  <2>4. outgoing[p] = <<>>
    BY DEF Init
  <2>5. FlightInv(p)
    BY <2>4, NoEntry DEF FlightInv, Lined, Counted, Fresh, Unsent
  <2> QED
    BY <2>2, <2>3, <2>5
<1> QED
  BY <1>1, OnceInit DEF AllFlight

(* Every step of the two streams.                                           *)
LEMMA FlightStep ==
    ASSUME TypeOK, AllFlight, [Next]_vars
    PROVE  AllFlight'
<1>1. /\ AllSafe /\ AllOnce /\ QueuesRequests
      /\ \A p \in Peers : /\ SafeInv(p) /\ OnceInv(p) /\ CareInv(p)
                          /\ RequestInv(p) /\ FlightInv(p)
  BY DEF AllFlight, AllSafe, AllOnce
<1>2. AllSafe' /\ AllOnce'
  BY <1>1, OnceStep
<1>3. ASSUME NEW p \in Peers PROVE CareInv(p)' /\ RequestInv(p)' /\ FlightInv(p)'
  <2>1. Kind(p) /\ Receipts(Other(p))
    BY <1>1, StepKinds, ReceiptsStep, OtherPeer
  <2>2. CareInv(p)'
    BY <1>1, <2>1, SenderKeepsCare, ReceiverKeepsCare, AckKeepsCare DEF Kind
  <2>3. RequestInv(p)'
    BY <1>1, RequestStep
  <2>4. FlightInv(p)'
    <3>1. CASE Publish(p) \/ Request(p)
      BY <1>1, <2>1, <3>1, FlightCall
    <3>2. CASE DoTime(p)
      BY <1>1, <2>1, <3>2, FlightTime
    <3>3. CASE HandlesAnAck(p)
      BY <1>1, <2>1, <3>3, FlightAck DEF HandlesAnAck
    <3>4. CASE Leaves(p)
      BY <1>1, <2>1, <3>4, FlightStays
    <3> QED
      BY <1>1, <3>1, <3>2, <3>3, <3>4, StepLeaves
  <2> QED
    BY <2>2, <2>3, <2>4
<1> QED
  BY <1>2, <1>3 DEF AllFlight

(* As long as a stream gave nothing up, one of its frames is in flight, and *)
(* stream_mqtt_do_time wrote it at most MQTT_RESEND_ATTEMPTS times.         *)
LEMMA FlightIsOne == TypeOK /\ AllFlight => OneInFlight
<1> SUFFICES ASSUME TypeOK, AllFlight, NEW p \in Peers, abandoned[p] = {}
             PROVE  LET flying == {item \in ToSet(outgoing[p]) : item.sent > 0}
                    IN  /\ \A x, y \in flying : FrameOf(x) = FrameOf(y)
                        /\ \A x \in flying : x.sent <= ResendAttempts
  BY DEF OneInFlight
<1>1. Lined(p) /\ Counted(p)
  BY DEF AllFlight, FlightInv
<1> QED
  BY <1>1, OneFlies DEF Counted

-----------------------------------------------------------------------------
(* The order of what a stream publishes.                                   *)

\* Every entry of published has a packet id of its own.
PublishedOnce(p) == \A x, y : Before(published[p], x, y) => x.id # y.id

(* What comes before another entry does not come after it.                  *)
LEMMA OrderAsymmetric ==
    ASSUME TypeOK, NEW p \in Peers, PublishedOnce(p), NEW x, NEW y,
           Before(published[p], x, y), Before(published[p], y, x)
    PROVE  FALSE
<1> DEFINE w == published[p]
<1>1. \A x1, y1 : Before(w, x1, y1) => x1 # y1
  BY DEF PublishedOnce
<1> HIDE DEF w
<1>2. PICK i \in DOMAIN w : \E j \in DOMAIN w : i < j /\ w[i] = x /\ w[j] = y
  BY DEF Before, w
<1>3. PICK j \in DOMAIN w : i < j /\ w[i] = x /\ w[j] = y
  BY <1>2
<1>4. PICK k \in DOMAIN w : \E m \in DOMAIN w : k < m /\ w[k] = y /\ w[m] = x
  BY DEF Before, w
<1>5. PICK m \in DOMAIN w : k < m /\ w[k] = y /\ w[m] = x
  BY <1>4
<1>6. i \in Nat /\ j \in Nat /\ k \in Nat /\ m \in Nat
  BY DEF TypeOK, w
<1>7. ~(j < k) /\ ~(k < j) /\ ~(i < m) /\ ~(m < i)
  BY <1>1, <1>3, <1>5 DEF Before
<1> QED
  BY <1>3, <1>5, <1>6, <1>7

(* stream_mqtt_publish: the message is new and comes behind the others.     *)
LEMMA PublishAppends ==
    ASSUME TypeOK, NEW p \in Peers, Publish(p)
    PROVE  \E f \in FrameType :
             /\ f.type = "PUBLISH"
             /\ \A g \in Published(p) : g.id # f.id
             /\ Submit(p, f, f.arg > 0)
             /\ Published(p)' = Published(p) \cup {f}
             /\ \A x, y : Before(published'[p], x, y) <=>
                  Before(published[p], x, y) \/ (x \in Published(p) /\ y = f)
             /\ \A r \in Peers : r # p => published'[r] = published[r]
<1>1. PICK id \in PacketIds, qos \in QosLevels :
           /\ \A f \in ToSet(published[p]) : f.id # id
           /\ published' = [published EXCEPT ![p] = Append(@, Frame("PUBLISH", id, qos))]
           /\ Submit(p, Frame("PUBLISH", id, qos), qos > 0)
  BY DEF Publish
<1> DEFINE f == Frame("PUBLISH", id, qos)
           w == published[p]
<1>2. qos \in Nat
  BY AppAssumption
<1>3. f \in FrameType /\ f.type = "PUBLISH" /\ f.id = id /\ f.arg = qos
  BY <1>2 DEF Frame, FrameType, FrameTypes
<1> HIDE DEF f
<1>4. w \in Seq(FrameType) /\ <<f>> \in Seq(FrameType)
  BY <1>3 DEF TypeOK
<1>5. published'[p] = w \o <<f>> /\ \A r \in Peers : r # p => published'[r] = published[r]
  BY <1>1, <1>4 DEF f, TypeOK
<1> HIDE DEF w
<1>6. /\ ToSet(w \o <<f>>) = ToSet(w) \cup ToSet(<<f>>)
      /\ \A x, y : Before(w \o <<f>>, x, y) <=>
           \/ Before(w, x, y) \/ Before(<<f>>, x, y)
           \/ x \in ToSet(w) /\ y \in ToSet(<<f>>)
  BY <1>4, ConcatEntries
<1>7. ToSet(<<f>>) = {f} /\ \A x, y : ~Before(<<f>>, x, y)
  BY SingleEntry
<1>8. \A x, y : Before(published'[p], x, y) <=>
        Before(w, x, y) \/ (x \in ToSet(w) /\ y = f)
  BY <1>5, <1>6, <1>7
<1>9. Published(p)' = Published(p) \cup {f}
  BY <1>5, <1>6, <1>7 DEF Published, w
<1>10. \A g \in Published(p) : g.id # f.id
  BY <1>1, <1>3 DEF Published
<1>11. Submit(p, f, f.arg > 0)
  BY <1>1, <1>3 DEF f
<1> QED
  BY <1>3, <1>5, <1>8, <1>9, <1>10, <1>11 DEF w, Published

(* Only stream_mqtt_publish publishes.                                      *)
LEMMA PublishedStays ==
    ASSUME [Next]_vars
    PROVE  UNCHANGED published \/ \E r \in Peers : Publish(r)
  BY DEF Next, vars, callVars, Tick, Connect, Answer, Request, Disconnect, ByteCall, Read,
         HandleReceivedFrame, TakeFrame, DoTime, Lose, Crash

(* So an id is never given again (Publish models an application that gives  *)
(* every message an id of its own).                                         *)
LEMMA PublishedStep ==
    ASSUME TypeOK, [Next]_vars, NEW p \in Peers, PublishedOnce(p)
    PROVE  PublishedOnce(p)'
<1>1. CASE UNCHANGED published
  BY <1>1 DEF PublishedOnce
<1>2. ASSUME NEW r \in Peers, Publish(r), r # p PROVE PublishedOnce(p)'
  <2>1. published'[p] = published[p]
    BY <1>2, PublishAppends
  <2> QED
    BY <2>1 DEF PublishedOnce
<1>3. CASE Publish(p)
  <2>1. PICK f :
          /\ \A g \in Published(p) : g.id # f.id
          /\ \A x, y : Before(published'[p], x, y) <=>
               Before(published[p], x, y) \/ (x \in Published(p) /\ y = f)
    BY <1>3, PublishAppends
  <2> QED
    BY <2>1 DEF PublishedOnce
<1> QED
  BY <1>1, <1>2, <1>3, PublishedStays

-----------------------------------------------------------------------------
(* The order in which publications arrive.                                 *)

\* In the queue w an f comes before every g.
Preceded(w, f, g) == \A j \in DOMAIN w : w[j] = g => \E i \in DOMAIN w : i < j /\ w[i] = f

(* Frames behind a queue, with the other frame in it or without.            *)
LEMMA PrecededConcat ==
    ASSUME NEW S, NEW w \in Seq(S), NEW more \in Seq(S), NEW f, NEW g,
           Preceded(w, f, g), g \notin ToSet(more) \/ f \in ToSet(w)
    PROVE  Preceded(w \o more, f, g)
<1> DEFINE n == Len(w)
           wm == w \o more
<1>1. /\ n \in Nat /\ Len(more) \in Nat /\ DOMAIN w = 1..n
      /\ DOMAIN wm = 1..(n + Len(more))
      /\ \A i \in 1..n : wm[i] = w[i]
      /\ \A j \in DOMAIN wm : j > n => j - n \in DOMAIN more /\ wm[j] = more[j - n]
  OBVIOUS
<1> HIDE DEF wm, n
<1>2. SUFFICES ASSUME NEW j \in DOMAIN wm, wm[j] = g
               PROVE  \E i \in DOMAIN wm : i < j /\ wm[i] = f
  BY DEF Preceded, wm
<1>3. CASE j <= n
  <2>1. j \in DOMAIN w /\ w[j] = g
    BY <1>1, <1>2, <1>3
  <2>2. PICK i \in DOMAIN w : i < j /\ w[i] = f
    BY <2>1 DEF Preceded
  <2> QED
    BY <1>1, <2>2
<1>4. CASE j > n
  <2>1. g \in ToSet(more)
    BY <1>1, <1>2, <1>4 DEF ToSet
  <2>2. PICK i \in DOMAIN w : w[i] = f
    BY <2>1 DEF ToSet
  <2>3. i \in DOMAIN wm /\ wm[i] = f /\ i < j
    BY <1>1, <1>4, <2>2
  <2> QED
    BY <2>3
<1> QED
  BY <1>1, <1>3, <1>4

(* The frame behind the head of the queue; a g is never the head.           *)
LEMMA PrecededHead ==
    ASSUME NEW S, NEW w \in Seq(S), NEW x \in S, NEW f, NEW g, Preceded(<<x>> \o w, f, g)
    PROVE  /\ x # g
           /\ x # f => Preceded(w, f, g)
<1> DEFINE n == Len(w)
           xw == <<x>> \o w
<1>1. /\ n \in Nat /\ DOMAIN w = 1..n /\ DOMAIN xw = 1..(n + 1)
      /\ xw[1] = x /\ \A j \in 1..n : xw[j + 1] = w[j]
  OBVIOUS
<1> HIDE DEF xw, n
<1>2. x # g
  <2> SUFFICES ASSUME x = g PROVE FALSE
    OBVIOUS
  <2>1. 1 \in DOMAIN xw /\ xw[1] = g
    BY <1>1
  <2>2. \E i \in DOMAIN xw : i < 1 /\ xw[i] = f
    BY <2>1 DEF Preceded, xw
  <2> QED
    BY <1>1, <2>2
<1>3. ASSUME x # f, NEW j \in DOMAIN w, w[j] = g
      PROVE  \E i \in DOMAIN w : i < j /\ w[i] = f
  <2>1. j + 1 \in DOMAIN xw /\ xw[j + 1] = g
    BY <1>1, <1>3
  <2>2. PICK i \in DOMAIN xw : i < j + 1 /\ xw[i] = f
    BY <2>1 DEF Preceded, xw
  <2>3. i \in 1..(n + 1) /\ i # 1
    BY <1>1, <1>3, <2>2
  <2>4. i - 1 \in 1..n /\ i - 1 < j /\ w[i - 1] = f
    <3>1. i - 1 \in 1..n /\ i = (i - 1) + 1
      BY <1>1, <2>3
    <3> QED
      BY <1>1, <2>2, <3>1
  <2> QED
    BY <1>1, <2>4
<1> QED
  BY <1>2, <1>3 DEF Preceded

\* When g was written, every f published before it has been received, or f has
\* QoS 0 and is ahead of g on the way.
InLine(p, f, g) ==
    \/ f \in Got(Other(p))
    \/ /\ f.arg = 0 /\ Preceded(Wire(Other(p)), f, g)
       /\ g \notin Waiting(Other(p)) \cup Got(Other(p))

LineInv(p) ==
    /\ \A f, g : Before(published[p], f, g) /\ g \notin Unsent(p) => InLine(p, f, g)
    /\ \A f \in Published(p) :
         f.arg = 0 => f \in Outgoing(p) \cup OnWire(Other(p)) \cup Got(Other(p))

\* ArrivesInOrder for the publications of p, and what keeps it while the other
\* stream runs.
Arrived(p) ==
    \A f, g : Before(published[p], f, g) /\ g \in Got(Other(p)) => f \in Got(Other(p))

ArriveInv(p) ==
    losses = 0 /\ abandoned[p] = {} =>
        /\ Arrived(p)
        /\ alive[Other(p)] => LineInv(p)

\* The step writes these frames to the stream on the other side of p, which
\* receives no publication.
Adds(p, more) ==
    /\ more \in Seq(FrameType) /\ Wire(Other(p))' = Wire(Other(p)) \o more
    /\ ReceiverSame(Other(p))

(* Steps that write to the other stream: a publication that is written now  *)
(* finds those published before it received or on their way.                *)
LEMMA LineWritten ==
    ASSUME TypeOK, NEW p \in Peers, NEW more, Adds(p, more), SafeInv(p),
           \A f \in Published(p)' : f.type = "PUBLISH",
           \A f \in Published(p) :
              f.arg = 0 /\ f \in Outgoing(p) \cup OnWire(Other(p)) \cup Got(Other(p)) =>
                f \in Outgoing(p)' \cup OnWire(Other(p)) \cup ToSet(more) \cup Got(Other(p)),
           \A f \in Published(p)' : f \in Published(p) \/ f \in Outgoing(p)' \cup ToSet(more),
           \A f \in Published(p) :
              f.arg = 0 => f \in Outgoing(p) \cup OnWire(Other(p)) \cup Got(Other(p)),
           \A f, g : Before(published[p], f, g)' /\ g \notin Unsent(p)' =>
              \/ f \in Got(Other(p))
              \/ /\ f.arg = 0 /\ Preceded(Wire(Other(p)), f, g)
                 /\ g \notin Waiting(Other(p)) \cup Got(Other(p))
                 /\ g \notin ToSet(more) \/ f \in OnWire(Other(p))
    PROVE  LineInv(p)'
<1> DEFINE q == Other(p)
           w == Wire(q)
<1>0. q \in Peers
  BY OtherPeer
<1> HIDE DEF q
<1>1. w \in Seq(FrameType) /\ more \in Seq(FrameType)
  BY <1>0, WireTyped DEF Adds
<1>2. /\ Wire(q)' = w \o more /\ Waiting(q)' = Waiting(q)
      /\ \A f : f.type = "PUBLISH" => (f \in Got(q)' <=> f \in Got(q))
  BY DEF Adds, ReceiverSame, SameReceived, Waiting, q
<1>3. ToSet(w \o more) = ToSet(w) \cup ToSet(more)
  BY <1>1, ConcatEntries
<1>4. OnWire(q)' = OnWire(q) \cup ToSet(more) /\ OnWire(q) = ToSet(w)
  BY <1>2, <1>3 DEF OnWire
<1> HIDE DEF w
<1>5. ASSUME NEW f, NEW g, Before(published[p], f, g)', g \notin Unsent(p)'
      PROVE  InLine(p, f, g)'
  <2>1. f \in Published(p)' /\ g \in Published(p)'
    BY <1>5, BeforeEntries DEF Published
  <2>2. f.type = "PUBLISH" /\ g.type = "PUBLISH"
    BY <2>1
  <2>3. CASE f \in Got(q)
    BY <1>2, <2>2, <2>3 DEF InLine, q
  <2>4. CASE f \notin Got(q)
    <3>1. /\ f.arg = 0 /\ Preceded(w, f, g)
          /\ g \notin Waiting(q) \cup Got(q)
          /\ g \notin ToSet(more) \/ f \in ToSet(w)
      BY <1>4, <1>5, <2>4 DEF q, w
    <3>2. Preceded(w \o more, f, g)
      BY <1>1, <3>1, PrecededConcat
    <3>3. g \notin Waiting(q)' \cup Got(q)'
      BY <1>2, <2>2, <3>1
    <3> QED
      BY <1>2, <3>1, <3>2, <3>3 DEF InLine, q
  <2> QED
    BY <2>3, <2>4
<1>6. ASSUME NEW f \in Published(p)', f.arg = 0
      PROVE  f \in Outgoing(p)' \cup OnWire(q)' \cup Got(q)'
  <2>1. f.type = "PUBLISH"
    OBVIOUS
  <2>2. f \in Outgoing(p)' \cup OnWire(q) \cup ToSet(more) \cup Got(q)
    BY <1>6 DEF q
  <2> QED
    BY <1>2, <1>4, <2>1, <2>2
<1> QED
  BY <1>5, <1>6 DEF LineInv, q

(* A step that writes no publication and removes none from outgoing that    *)
(* was not written.                                                         *)
LEMMA LineQuiet ==
    ASSUME TypeOK, NEW p \in Peers, NEW more, Adds(p, more), SafeInv(p), LineInv(p),
           \A f \in ToSet(more) : f.type # "PUBLISH",
           published'[p] = published[p],
           \A f : f.type = "PUBLISH" =>
              /\ f \in Unsent(p) => f \in Unsent(p)'
              /\ f.arg = 0 /\ f \in Published(p) /\ f \in Outgoing(p) => f \in Outgoing(p)'
    PROVE  LineInv(p)'
<1>1. Published(p)' = Published(p) /\ \A f \in Published(p) : f.type = "PUBLISH"
  BY DEF Published, SafeInv, Identified
<1>2. ASSUME NEW f, NEW g, Before(published[p], f, g)', g \notin Unsent(p)'
      PROVE  \/ f \in Got(Other(p))
             \/ /\ f.arg = 0 /\ Preceded(Wire(Other(p)), f, g)
                /\ g \notin Waiting(Other(p)) \cup Got(Other(p))
                /\ g \notin ToSet(more)
  <2>1. Before(published[p], f, g) /\ g \in Published(p)
    BY <1>2, BeforeEntries DEF Published
  <2>2. g.type = "PUBLISH" /\ g \notin Unsent(p) /\ g \notin ToSet(more)
    BY <1>1, <1>2, <2>1
  <2> QED
    BY <2>1, <2>2 DEF LineInv, InLine
<1>3. /\ \A f \in Published(p) :
            f.arg = 0 => f \in Outgoing(p) \cup OnWire(Other(p)) \cup Got(Other(p))
      /\ \A f \in Published(p) :
            f.arg = 0 /\ f \in Outgoing(p) \cup OnWire(Other(p)) \cup Got(Other(p)) =>
              f \in Outgoing(p)' \cup OnWire(Other(p)) \cup ToSet(more) \cup Got(Other(p))
  BY <1>1 DEF LineInv
<1> QED
  BY <1>1, <1>2, <1>3, LineWritten

(* The publication that r handles is received or waits, and a PUBREL lets   *)
(* waiting ones be received.                                                *)
LEMMA HandlingTakes ==
    ASSUME TypeOK, NEW r \in Peers, HandleReceivedFrame(r)
    PROVE  LET x == Head(buffer[r])
           IN  /\ \A g : g.type = "PUBLISH" /\ g \in Waiting(r)' \cup Got(r)' =>
                    g \in Waiting(r) \cup Got(r) \/ g = x
               /\ x.type = "PUBLISH" /\ x.arg # 2 => x \in Got(r)'
<1> DEFINE x == Head(buffer[r])
<1>1. x \in FrameType
  BY HandlingWay
<1>2. \/ ReceiveConnect(r, x) \/ ReceiveConnack(r, x) \/ ReceiveForApplication(r, x)
      \/ ReceivePublish(r, x) \/ ReceiveAck(r, x) \/ ReceivePubrel(r, x)
      \/ ReceivePing(r, x)
  BY DEF HandleReceivedFrame
<1> HIDE DEF x
<1>3. CASE ReceivePublish(r, x) /\ x.arg = 2
  <2>1. inbound'[r] = ReplacingCopies(inbound[r], x) /\ UNCHANGED recvVars
    BY <1>3 DEF ReceivePublish, TypeOK
  <2>2. Waiting(r)' \subseteq Waiting(r) \cup {x}
    BY <1>1, <2>1, ReplacingWaits
  <2>3. Got(r)' = Got(r)
    BY <2>1 DEF Got, Received, recvVars
  <2> QED
    BY <1>3, <2>2, <2>3 DEF x
<1>4. CASE ReceivePublish(r, x) /\ x.arg # 2
  <2>1. Notify(r, <<x>>) /\ UNCHANGED inbound
    BY <1>4 DEF ReceivePublish
  <2>2. <<x>> \in Seq(FrameType) /\ ToSet(<<x>>) = {x}
    BY <1>1, SingleEntry
  <2>3. Got(r)' = Got(r) \cup {x} /\ Waiting(r)' = Waiting(r)
    BY <2>1, <2>2, NotifyGains DEF Gains, Waiting
  <2> QED
    BY <2>3 DEF x
<1>5. CASE ReceivePubrel(r, x)
  <2>1. /\ x.type = "PUBREL"
        /\ inbound'[r] = Without(inbound[r], Awaits(r, x.id))
        /\ Notify(r, Only(inbound[r], Awaits(r, x.id)))
    BY <1>5 DEF ReceivePubrel, Awaits, TypeOK
  <2>2. Only(inbound[r], Awaits(r, x.id)) \in Seq(FrameType)
    <3>1. inbound[r] \in Seq(FrameType)
      BY DEF TypeOK
    <3> QED
      BY <3>1, OnlyOrder
  <2>3. Gains(r, Only(inbound[r], Awaits(r, x.id)))
    BY <2>1, <2>2, NotifyGains
  <2>4. Waiting(r)' \subseteq Waiting(r) /\ Got(r)' \subseteq Got(r) \cup Waiting(r)
    BY <2>1, <2>3, ReleasingWaits
  <2> QED
    BY <2>1, <2>4 DEF x
<1>6. CASE \/ ReceiveConnect(r, x) \/ ReceiveConnack(r, x) \/ ReceiveForApplication(r, x)
           \/ ReceiveAck(r, x) \/ ReceivePing(r, x)
  <2>1. Other(r) \in Peers /\ Other(Other(r)) = r
    BY OtherPeer
  <2>2. Idle(Other(r))
    BY <1>6, HandlesOther, HandlesAck DEF x
  <2>3. ReceiverSame(r) /\ x.type # "PUBLISH"
    BY <1>6, <2>1, <2>2
    DEF Idle, ReceiveConnect, ReceiveConnack, ReceiveForApplication, ReceiveAck, ReceivePing
  <2> QED
    BY <2>3 DEF ReceiverSame, SameReceived, Waiting, x
<1> QED
  BY <1>2, <1>3, <1>4, <1>5, <1>6

(* stream_mqtt_handle_received_frame at the receiver: the first publication *)
(* on the way is the next in line.                                          *)
LEMMA LineHandled ==
    ASSUME TypeOK, NEW p \in Peers, HandleReceivedFrame(Other(p)), SafeInv(p), LineInv(p)
    PROVE  LineInv(p)'
<1> DEFINE q == Other(p)
           x == Head(buffer[q])
<1>0. q \in Peers /\ q # p /\ Other(q) = p
  BY OtherPeer
<1>1. /\ outgoing'[p] = outgoing[p] /\ UNCHANGED published
      /\ \A g : g.type = "PUBLISH" /\ g \in Waiting(q)' \cup Got(q)' =>
           g \in Waiting(q) \cup Got(q) \/ g = x
      /\ x.type = "PUBLISH" /\ x.arg # 2 => x \in Got(q)'
  BY <1>0, HandlingWay, HandlingTakes
<1>2. x \in FrameType /\ Wire(q) = <<x>> \o Wire(q)' /\ Wire(q)' \in Seq(FrameType)
  <2>1. buffer[q] # <<>> /\ buffer' = [buffer EXCEPT ![q] = Tail(@)]
    BY DEF HandleReceivedFrame
  <2>2. net'[q] = net[q]
    <3>1. (\E frames : Writes(q, frames)) \/ UNCHANGED net
      BY DEF HandleReceivedFrame, ReceiveConnect, ReceiveConnack, ReceiveForApplication,
             ReceivePublish, ReceiveAck, ReceivePubrel, ReceivePing
    <3> QED
      BY <1>0, <3>1 DEF Writes, TypeOK
  <2> QED
    BY <1>0, <2>1, <2>2, WireHandled
<1>3. Receipts(q)
  BY <1>0, HandlingReceipts
<1>4. \A f \in Published(p) : f.type = "PUBLISH" /\ (f.arg = 2 => f.arg # 0)
  BY DEF SafeInv, Identified
<1>5. Unsent(p)' = Unsent(p) /\ Published(p)' = Published(p) /\ Outgoing(p)' = Outgoing(p)
  BY <1>1 DEF Unsent, Published, Outgoing
<1> HIDE DEF x, q
<1>6. ASSUME NEW f, NEW g, Before(published[p], f, g), g \notin Unsent(p)
      PROVE  InLine(p, f, g)'
  <2>1. f \in Published(p) /\ g \in Published(p)
    BY <1>6, BeforeEntries DEF Published
  <2>2. CASE f \in Got(q)
    BY <1>3, <2>2 DEF Receipts, InLine, q
  <2>3. CASE f \notin Got(q)
    <3>1. /\ f.arg = 0 /\ Preceded(Wire(q), f, g)
          /\ g \notin Waiting(q) \cup Got(q)
      BY <1>6, <2>3 DEF LineInv, InLine, q
    <3>2. x # g /\ (x # f => Preceded(Wire(q)', f, g))
      BY <1>2, <3>1, PrecededHead
    <3>3. CASE x = f
      BY <1>1, <1>4, <2>1, <3>1, <3>3 DEF InLine, q
    <3>4. CASE x # f
      <4>1. g \notin Waiting(q)' \cup Got(q)'
        BY <1>1, <1>4, <2>1, <3>1, <3>2
      <4> QED
        BY <3>1, <3>2, <3>4, <4>1 DEF InLine, q
    <3> QED
      BY <3>3, <3>4
  <2> QED
    BY <2>2, <2>3
<1>7. ASSUME NEW f \in Published(p), f.arg = 0
      PROVE  f \in Outgoing(p) \cup OnWire(q)' \cup Got(q)'
  <2>1. f \in Outgoing(p) \cup OnWire(q) \cup Got(q)
    BY <1>7 DEF LineInv, q
  <2>2. OnWire(q) = {x} \cup OnWire(q)'
    <3> DEFINE v == Wire(q)'
    <3>1. v \in Seq(FrameType) /\ Wire(q) = <<x>> \o v /\ OnWire(q)' = ToSet(v)
      BY <1>2 DEF OnWire
    <3> HIDE DEF v
    <3>2. ToSet(<<x>> \o v) = {x} \cup ToSet(v)
      BY <1>2, <3>1, PushedEntries
    <3> QED
      BY <3>1, <3>2 DEF OnWire
  <2>3. f = x => f \in Got(q)'
    BY <1>1, <1>4, <1>7
  <2>4. Got(q) \subseteq Got(q)'
    BY <1>3 DEF Receipts
  <2> QED
    BY <2>1, <2>2, <2>3, <2>4
<1> QED
  BY <1>1, <1>5, <1>6, <1>7 DEF LineInv, q

(* A frame that finds outgoing empty is written, another one waits.         *)
LEMMA SubmitWays ==
    ASSUME TypeOK, NEW p \in Peers, NEW f \in FrameType, NEW acknowledged \in BOOLEAN,
           Submit(p, f, acknowledged), UNCHANGED buffer, alive[Other(p)]
    PROVE  \E more \in Seq(FrameType) :
             /\ Wire(Other(p))' = Wire(Other(p)) \o more
             /\ \/ /\ ToSet(more) = {f} /\ Outgoing(p) = {} /\ Unsent(p) = {}
                \/ /\ ToSet(more) = {}
                   /\ Outgoing(p)' = Outgoing(p) \cup {f}
                   /\ Unsent(p)' = Unsent(p) \cup {f}
<1> DEFINE q == outgoing[p]
           new == Item(f, 0)
<1>1. q \in Seq(ItemType) /\ Wire(Other(p)) \in Seq(FrameType)
  BY OtherPeer, WireTyped DEF TypeOK
<1>2. CASE q = <<>>
  <2>1. Writes(p, <<f>>)
    BY <1>2 DEF Submit, IsIdle
  <2>2. <<f>> \in Seq(FrameType) /\ ToSet(<<f>>) = {f}
    BY SingleEntry
  <2>3. Wire(Other(p))' = Wire(Other(p)) \o <<f>>
    BY <2>1, <2>2, WireWritten
  <2>4. ToSet(q) = {}
    BY <1>2, NoEntry
  <2> HIDE DEF q
  <2>5. Outgoing(p) = {} /\ Unsent(p) = {}
    BY <2>4 DEF Outgoing, Unsent, q
  <2> DEFINE more == <<f>>
  <2>6. /\ more \in Seq(FrameType) /\ Wire(Other(p))' = Wire(Other(p)) \o more
        /\ ToSet(more) = {f}
    BY <2>2, <2>3
  <2> HIDE DEF more
  <2> QED
    BY <2>5, <2>6
<1>3. CASE q # <<>>
  <2>1. outgoing'[p] = Append(q, new) /\ UNCHANGED net
    BY <1>3 DEF Submit, IsIdle, TypeOK
  <2>2. new \in ItemType /\ FrameOf(new) = f /\ new.sent = 0
    BY FrameTyped, FrameOfItem DEF Item
  <2> HIDE DEF new, q
  <2>3. ToSet(outgoing'[p]) = ToSet(q) \cup {new}
    <3>1. outgoing'[p] = q \o <<new>> /\ <<new>> \in Seq(ItemType)
      BY <1>1, <2>1, <2>2
    <3>2. ToSet(q \o <<new>>) = ToSet(q) \cup ToSet(<<new>>) /\ ToSet(<<new>>) = {new}
      BY <1>1, <3>1, ConcatEntries, SingleEntry
    <3> QED
      BY <3>1, <3>2
  <2>4. Outgoing(p)' = Outgoing(p) \cup {f} /\ Unsent(p)' = Unsent(p) \cup {f}
    BY <2>2, <2>3 DEF Outgoing, Unsent, q
  <2>5. Wire(Other(p))' = Wire(Other(p)) \o <<>> /\ <<>> \in Seq(FrameType) /\ ToSet(<<>>) = {}
    <3>1. Wire(Other(p))' = Wire(Other(p))
      BY <2>1 DEF Wire
    <3> QED
      BY <1>1, <3>1, NoEntry
  <2> DEFINE more == <<>>
  <2>6. /\ more \in Seq(FrameType) /\ Wire(Other(p))' = Wire(Other(p)) \o more
        /\ ToSet(more) = {}
    BY <2>5
  <2> HIDE DEF more
  <2> QED
    BY <2>4, <2>6
<1> QED
  BY <1>2, <1>3

(* stream_mqtt_publish, stream_mqtt_subscribe and stream_mqtt_unsubscribe:  *)
(* a message is only written when those before it need no acknowledgement.  *)
LEMMA LineCall ==
    ASSUME TypeOK, NEW p \in Peers, Publish(p) \/ Request(p), alive[Other(p)],
           abandoned[p] = {}, SafeInv(p), LineInv(p)
    PROVE  LineInv(p)'
<1> DEFINE q == Other(p)
<1>1. UNCHANGED buffer /\ ReceiverSame(q)
  BY SubmitSteps DEF Publish, Request, Submits
<1>2. \A f \in Published(p) : f.type = "PUBLISH" /\ (f.arg = 0 \/ f.arg > 0)
  <2>1. \A f \in Published(p) : f.type = "PUBLISH" /\ f.arg \in QosLevels
    BY DEF SafeInv, Identified
  <2>2. \A n \in QosLevels : n = 0 \/ n > 0
    BY AppAssumption
  <2> QED
    BY <2>1, <2>2
<1>3. Abandoned(p) = {}
  BY DEF Abandoned
<1>4. CASE Publish(p)
  <2>1. PICK m \in FrameType :
             /\ m.type = "PUBLISH"
             /\ \A g \in Published(p) : g.id # m.id
             /\ Submit(p, m, m.arg > 0)
             /\ Published(p)' = Published(p) \cup {m}
             /\ \A x, y : Before(published'[p], x, y) <=>
                  Before(published[p], x, y) \/ (x \in Published(p) /\ y = m)
    BY <1>4, PublishAppends
  <2> DEFINE acknowledged == m.arg > 0
  <2>2. acknowledged \in BOOLEAN /\ Submit(p, m, acknowledged)
    BY <2>1
  <2> HIDE DEF acknowledged
  <2>3. PICK more \in Seq(FrameType) :
             /\ Wire(q)' = Wire(q) \o more
             /\ \/ /\ ToSet(more) = {m} /\ Outgoing(p) = {} /\ Unsent(p) = {}
                \/ /\ ToSet(more) = {}
                   /\ Outgoing(p)' = Outgoing(p) \cup {m}
                   /\ Unsent(p)' = Unsent(p) \cup {m}
    BY <1>1, <2>2, SubmitWays
  <2>4. m \notin OnWire(q) /\ m \notin Waiting(q) \cup Got(q) /\ m \notin Published(p)
    BY <2>1, UnpublishedUnknown
  <2> HIDE DEF q
  <2>5. ASSUME NEW f, NEW g, Before(published[p], f, g)', g \notin Unsent(p)'
        PROVE  \/ f \in Got(q)
               \/ /\ f.arg = 0 /\ Preceded(Wire(q), f, g)
                  /\ g \notin Waiting(q) \cup Got(q)
                  /\ g \notin ToSet(more) \/ f \in OnWire(q)
    <3>1. CASE Before(published[p], f, g)
      <4>1. g \in Published(p)
        BY <3>1, BeforeEntries DEF Published
      <4>2. g \notin Unsent(p) /\ g \notin ToSet(more)
        BY <2>3, <2>4, <2>5, <4>1
      <4> QED
        BY <3>1, <4>2 DEF LineInv, InLine, q
    <3>2. CASE f \in Published(p) /\ g = m
      <4>1. ToSet(more) = {m} /\ Outgoing(p) = {}
        BY <2>3, <2>5, <3>2
      <4>2. f.arg > 0 => f \in Got(q)
        BY <1>3, <3>2, <4>1 DEF SafeInv, Accounted, q
      <4>3. f.arg = 0 => f \in OnWire(q) \cup Got(q)
        BY <3>2, <4>1 DEF LineInv, q
      <4>4. Preceded(Wire(q), f, m)
        BY <2>4 DEF Preceded, OnWire, ToSet
      <4> QED
        BY <1>2, <2>4, <3>2, <4>2, <4>3, <4>4
    <3> QED
      BY <2>1, <2>5, <3>1, <3>2
  <2>6. /\ \A f \in Published(p)' : f.type = "PUBLISH"
        /\ \A f \in Published(p)' : f \in Published(p) \/ f \in Outgoing(p)' \cup ToSet(more)
        /\ \A f \in Published(p) :
              f.arg = 0 => f \in Outgoing(p) \cup OnWire(q) \cup Got(q)
        /\ \A f \in Published(p) :
              f.arg = 0 /\ f \in Outgoing(p) \cup OnWire(q) \cup Got(q) =>
                f \in Outgoing(p)' \cup OnWire(q) \cup ToSet(more) \cup Got(q)
    BY <1>2, <2>1, <2>3 DEF LineInv, q
  <2>7. Adds(p, more)
    BY <1>1, <2>3 DEF Adds, q
  <2> QED
    BY <2>5, <2>6, <2>7, LineWritten DEF q
<1>5. CASE Request(p)
  <2>1. PICK type \in {"SUBSCRIBE", "UNSUBSCRIBE"}, id \in PacketIds :
             Submit(p, Frame(type, id, 0), TRUE)
    BY <1>5 DEF Request
  <2> DEFINE m == Frame(type, id, 0)
  <2>2. m \in FrameType /\ m.type # "PUBLISH" /\ Submit(p, m, TRUE)
    BY <2>1 DEF Frame, FrameType, FrameTypes
  <2> HIDE DEF m
  <2>3. PICK more \in Seq(FrameType) :
             /\ Wire(q)' = Wire(q) \o more
             /\ \/ /\ ToSet(more) = {m} /\ Outgoing(p) = {} /\ Unsent(p) = {}
                \/ /\ ToSet(more) = {}
                   /\ Outgoing(p)' = Outgoing(p) \cup {m}
                   /\ Unsent(p)' = Unsent(p) \cup {m}
    BY <1>1, <2>2, SubmitWays
  <2>4. published'[p] = published[p]
    BY <1>5 DEF Request
  <2>5. Adds(p, more)
    BY <1>1, <2>3 DEF Adds
  <2>6. /\ \A f \in ToSet(more) : f.type # "PUBLISH"
        /\ Unsent(p) \subseteq Unsent(p)' /\ Outgoing(p) \subseteq Outgoing(p)'
    BY <2>2, <2>3
  <2> QED
    BY <2>4, <2>5, <2>6, LineQuiet
<1> QED
  BY <1>4, <1>5

(* stream_mqtt_do_time writes the head of outgoing: what was published      *)
(* before it does not wait any more.                                        *)
LEMMA LineHead ==
    ASSUME TypeOK, NEW p \in Peers, SafeInv(p), LineInv(p), PublishedOnce(p),
           Lined(p), Fresh(p), abandoned[p] = {}, outgoing[p] # <<>>,
           NEW f, NEW g, Before(published[p], f, g), g = FrameOf(Head(outgoing[p]))
    PROVE  \/ f \in Got(Other(p))
           \/ /\ f.arg = 0 /\ f \in OnWire(Other(p)) /\ Preceded(Wire(Other(p)), f, g)
              /\ g \notin Waiting(Other(p)) \cup Got(Other(p))
<1> DEFINE q == Other(p)
           o == outgoing[p]
           h == Head(o)
           t == Tail(o)
<1>1. /\ o \in Seq(ItemType) /\ o # <<>>
      /\ \A x \in ToSet(o) : x \in ItemType /\ x.sent \in Nat
      /\ \A x : FrameOf(x).type = x.type /\ FrameOf(x).id = x.id
  BY ItemsTyped
<1>2. /\ h \in ToSet(o) /\ ToSet(o) = {h} \cup ToSet(t)
      /\ \A x \in ToSet(t) : Before(o, h, x)
  BY <1>1, HeadEntries
<1> HIDE DEF h, t, o
<1>3. /\ f \in Published(p) /\ g \in Published(p)
      /\ f.type = "PUBLISH" /\ g.type = "PUBLISH" /\ h.type = "PUBLISH" /\ g = FrameOf(h)
  <2>1. f \in Published(p) /\ g \in Published(p)
    BY BeforeEntries DEF Published
  <2>2. f.type = "PUBLISH" /\ g.type = "PUBLISH"
    BY <2>1 DEF SafeInv, Identified
  <2> QED
    BY <1>1, <2>1, <2>2 DEF h, o
<1>4. f.arg = 0 \/ f.arg > 0
  <2>1. f.arg \in QosLevels
    BY <1>3 DEF SafeInv, Identified
  <2>2. \A n \in QosLevels : n = 0 \/ n > 0
    BY AppAssumption
  <2> QED
    BY <2>1, <2>2
<1>5. f \notin Outgoing(p)
  <2> SUFFICES ASSUME NEW x \in ToSet(o), FrameOf(x) = f PROVE FALSE
    BY DEF Outgoing, o
  <2>1. x # h
    <3>1. f.id # g.id
      BY DEF PublishedOnce
    <3> QED
      BY <1>3, <3>1
  <2>2. Before(o, h, x)
    BY <1>2, <2>1
  <2>3. x.type = "PUBLISH"
    BY <1>1, <1>3
  <2>4. Before(published[p], g, f)
    BY <1>3, <2>2, <2>3 DEF Lined, o
  <2> QED
    BY <2>4, OrderAsymmetric
<1>6. CASE g \notin Unsent(p)
  <2>1. InLine(p, f, g)
    BY <1>6 DEF LineInv
  <2>2. f.arg = 0 => f \in OnWire(q) \cup Got(q)
    BY <1>3, <1>5 DEF LineInv
  <2> QED
    BY <2>1, <2>2 DEF InLine
<1>7. CASE g \in Unsent(p)
  <2>1. h.sent = 0
    <3>1. PICK x \in ToSet(o) : x.sent = 0 /\ FrameOf(x) = g
      BY <1>7 DEF Unsent, o
    <3>2. x = h
      <4> SUFFICES ASSUME x # h PROVE FALSE
        OBVIOUS
      <4>1. Before(o, h, x) /\ FrameOf(h) = FrameOf(x)
        BY <1>2, <1>3, <3>1
      <4> QED
        BY <1>3, <4>1 DEF Lined, o
    <3> QED
      BY <3>1, <3>2
  <2>2. \A x \in ToSet(o) : x.sent = 0
    <3> SUFFICES ASSUME NEW x \in ToSet(o), x # h PROVE x.sent = 0
      BY <2>1
    <3>1. Before(o, h, x)
      BY <1>2
    <3>2. ~(x.sent > 0)
      BY <2>1, <3>1 DEF Lined, o
    <3> QED
      BY <1>1, <3>2
  <2>3. Pubrel(f) \notin Outgoing(p)
    <3> SUFFICES ASSUME NEW x \in ToSet(o), FrameOf(x) = Pubrel(f) PROVE FALSE
      BY DEF Outgoing, o
    <3>1. Pubrel(f) \in Unsent(p)
      BY <2>2 DEF Unsent, o
    <3> QED
      BY <3>1, PubrelOf DEF Fresh
  <2>4. Abandoned(p) = {}
    BY DEF Abandoned
  <2>5. f.arg > 0 => f \in Got(q)
    BY <1>3, <1>5, <2>3, <2>4 DEF SafeInv, Accounted
  <2>6. f.arg = 0 => f \in OnWire(q) \cup Got(q)
    BY <1>3, <1>5 DEF LineInv
  <2>7. g \notin OnWire(q) /\ g \notin Waiting(q) \cup Got(q)
    BY <1>7 DEF Fresh, Known
  <2>8. Preceded(Wire(q), f, g)
    BY <2>7 DEF Preceded, OnWire, ToSet
  <2> QED
    BY <1>4, <2>5, <2>6, <2>7, <2>8
<1> QED
  BY <1>6, <1>7

(* stream_mqtt_do_time as a whole, as long as it gives nothing up.          *)
LEMMA LineTime ==
    ASSUME TypeOK, NEW p \in Peers, DoTime(p), alive[Other(p)], QueuesRequests,
           SafeInv(p), LineInv(p), PublishedOnce(p), FlightInv(p), abandoned'[p] = {}
    PROVE  LineInv(p)'
<1> DEFINE q == Other(p)
           o == outgoing[p]
           ping == Frame("PINGREQ", NoId, 0)
<1>1. UNCHANGED <<published, buffer>> /\ ReceiverSame(q)
  BY TimeSteps DEF DoTime, callVars, Resends
<1>2. abandoned[p] = {} /\ ~AbandonHead(p)
  <2>1. abandoned \in [Peers -> SUBSET ItemType]
    BY DEF TypeOK
  <2>2. CASE AbandonHead(p)
    <3> DEFINE h == Head(outgoing[p])
    <3>1. abandoned' = [abandoned EXCEPT ![p] = @ \cup {h}]
      BY <2>2 DEF AbandonHead
    <3> HIDE DEF h
    <3>2. abandoned'[p] = abandoned[p] \cup {h}
      BY <2>1, <3>1
    <3> QED
      BY <3>2
  <2>3. CASE ~AbandonHead(p)
    BY <2>3 DEF DoTime, ResendHead, WriteNext, NothingToWrite, resendVars
  <2> QED
    BY <2>2, <2>3
<1>3. Lined(p) /\ Fresh(p)
  BY <1>2 DEF FlightInv
<1>4. /\ \A f \in Published(p) : f.type = "PUBLISH"
      /\ ping.type = "PINGREQ"
      /\ Published(p)' = Published(p)
  BY <1>1 DEF SafeInv, Identified, Frame, Published
<1> HIDE DEF ping
<1>5. CASE NothingToWrite(p)
  <2>1. TimeWrites(p, <<>>) /\ UNCHANGED outgoing
    BY <1>5 DEF NothingToWrite
  <2>2. <<>> \in Seq(FrameType) /\ ToSet(<<>>) = {}
    BY NoEntry
  <2>3. PICK more \in Seq(FrameType) :
             /\ ToSet(more) \subseteq {ping} \cup ToSet(<<>>)
             /\ Wire(q)' = IF alive[q] THEN Wire(q) \o more ELSE Wire(q)
    BY <1>1, <2>1, <2>2, TimeWays DEF ping
  <2>4. Adds(p, more)
    BY <1>1, <2>3 DEF Adds
  <2>5. \A f \in ToSet(more) : f.type # "PUBLISH"
    BY <1>4, <2>2, <2>3
  <2>6. Unsent(p)' = Unsent(p) /\ Outgoing(p)' = Outgoing(p)
    BY <2>1 DEF Unsent, Outgoing
  <2> QED
    BY <1>1, <2>4, <2>5, <2>6, LineQuiet
<1>6. CASE ResendHead(p) \/ WriteNext(p)
  <2> DEFINE h == Head(o)
             t == Tail(o)
             k == FrameOf(h)
  <2>1. o # <<>> /\ TimeWrites(p, <<k>>) /\ outgoing'[p] = Written(o)
    BY <1>6 DEF ResendHead, ResendDue, WriteNext, NextDue, TypeOK
  <2>2. o \in Seq(ItemType)
    BY DEF TypeOK
  <2>3. /\ h \in ItemType /\ ToSet(o) = {h} \cup ToSet(t)
    BY <2>1, <2>2, HeadEntries
  <2>4. PICK w \in ItemType :
          /\ w.sent = h.sent + 1 /\ FrameOf(w) = FrameOf(h)
          /\ ToSet(outgoing'[p]) = {w} \cup ToSet(t)
    BY <2>1, <2>2, WrittenItems
  <2>5. k \in FrameType /\ w.sent # 0
    <3>1. h.sent \in Nat
      BY <2>3 DEF ItemType
    <3> QED
      BY <2>3, <2>4, <3>1, FrameTyped
  <2> HIDE DEF h, t, o
  <2>6. <<k>> \in Seq(FrameType) /\ ToSet(<<k>>) = {k}
    BY <2>5, SingleEntry
  <2> HIDE DEF k
  <2>7. PICK more \in Seq(FrameType) :
             /\ ToSet(more) \subseteq {ping} \cup ToSet(<<k>>)
             /\ Wire(q)' = IF alive[q] THEN Wire(q) \o more ELSE Wire(q)
    BY <1>1, <2>1, <2>6, TimeWays DEF ping
  <2>8. Adds(p, more)
    BY <1>1, <2>7 DEF Adds
  <2>9. Outgoing(p)' = Outgoing(p)
    BY <2>3, <2>4 DEF Outgoing, o
  <2>10. \A g \in Unsent(p) : g # k => g \in Unsent(p)'
    BY <2>3, <2>4 DEF Unsent, o, k
  <2>11. ASSUME NEW f, NEW g, Before(published[p], f, g)', g \notin Unsent(p)'
         PROVE  \/ f \in Got(q)
                \/ /\ f.arg = 0 /\ Preceded(Wire(q), f, g)
                   /\ g \notin Waiting(q) \cup Got(q)
                   /\ g \notin ToSet(more) \/ f \in OnWire(q)
    <3>1. Before(published[p], f, g) /\ g \in Published(p)
      BY <1>1, <2>11, BeforeEntries DEF Published
    <3>2. CASE g = k
      BY <1>2, <1>3, <2>1, <3>1, <3>2, LineHead DEF k, h, o
    <3>3. CASE g # k
      <4>1. g \notin Unsent(p) /\ g \notin ToSet(more)
        BY <1>4, <2>6, <2>7, <2>10, <2>11, <3>1, <3>3
      <4> QED
        BY <3>1, <4>1 DEF LineInv, InLine
    <3> QED
      BY <3>2, <3>3
  <2>12. /\ \A f \in Published(p)' : f.type = "PUBLISH"
         /\ \A f \in Published(p)' : f \in Published(p) \/ f \in Outgoing(p)' \cup ToSet(more)
         /\ \A f \in Published(p) :
               f.arg = 0 => f \in Outgoing(p) \cup OnWire(q) \cup Got(q)
         /\ \A f \in Published(p) :
               f.arg = 0 /\ f \in Outgoing(p) \cup OnWire(q) \cup Got(q) =>
                 f \in Outgoing(p)' \cup OnWire(q) \cup ToSet(more) \cup Got(q)
    BY <1>4, <2>9 DEF LineInv
  <2> QED
    BY <2>8, <2>11, <2>12, LineWritten
<1> QED
  BY <1>2, <1>5, <1>6 DEF DoTime

(* stream_mqtt_handle_received_frame at the sender: an acknowledgement      *)
(* removes only what was written, and no message of QoS 0.                  *)
LEMMA LineAck ==
    ASSUME TypeOK, NEW p \in Peers, HandlesAnAck(p), alive[Other(p)],
           SafeInv(p), CareInv(p), RequestInv(p), FlightInv(p), LineInv(p), abandoned[p] = {}
    PROVE  LineInv(p)'
<1> DEFINE q == Other(p)
           a == Head(buffer[p])
           t == RequestType(a.type)
           o == outgoing[p]
           rest == Without(o, Matches(o, t, a.id))
           pubrel == Frame("PUBREL", a.id, 0)
<1>0. q \in Peers /\ q # p
  BY OtherPeer
<1>1. /\ a \in FrameType /\ a \in OnWire(p) /\ UNCHANGED published
      /\ buffer'[q] = buffer[q]
  BY <1>0, HandlingWay DEF HandlesAnAck, HandleReceivedFrame, TypeOK
<1>2. ReceiverSame(q) /\ ReceiveAck(p, a)
  BY HandlesAck DEF HandlesAnAck, TakesAck
<1> HIDE DEF a
<1>3. /\ a.type \in Acks \cup {"SUBACK", "UNSUBACK"}
      /\ \/ Writes(p, <<pubrel>>) /\ outgoing'[p] = <<Item(pubrel, 1)>> \o rest
         \/ UNCHANGED net /\ outgoing'[p] = rest
  BY <1>2 DEF ReceiveAck, Acks, InsertHead, TypeOK
<1>4. /\ o \in Seq(ItemType)
      /\ \A x : FrameOf(x).type = x.type /\ FrameOf(x).id = x.id
  BY ItemsTyped
<1>5. rest \in Seq(ItemType) /\ ToSet(rest) = {x \in ToSet(o) : ~(x.type = t /\ x.id = a.id)}
  BY <1>4, AckedItems
<1>6. pubrel \in FrameType /\ pubrel.type = "PUBREL"
  BY <1>1, AnswerTyped DEF FrameTypes
<1> HIDE DEF rest, pubrel, t, o
<1>7. ToSet(rest) \subseteq ToSet(outgoing'[p])
  <2>1. CASE outgoing'[p] = rest
    BY <2>1
  <2>2. CASE outgoing'[p] = <<Item(pubrel, 1)>> \o rest
    <3>1. Item(pubrel, 1) \in ItemType
      BY <1>6, FrameTyped
    <3>2. ToSet(<<Item(pubrel, 1)>> \o rest) = {Item(pubrel, 1)} \cup ToSet(rest)
      BY <1>5, <3>1, PushedEntries
    <3> QED
      BY <2>2, <3>2
  <2> QED
    BY <1>3, <2>1, <2>2
<1>8. \A f \in Outgoing(p) : f.type = t /\ f.id = a.id => f \notin Unsent(p)
  <2>1. Lined(p) /\ Fresh(p)
    BY DEF FlightInv
  <2> QED
    BY <1>1, <1>3, <2>1, AckedFlies DEF t
<1>9. Unsent(p) \subseteq Unsent(p)'
  <2> SUFFICES ASSUME NEW x \in ToSet(o), x.sent = 0 PROVE FrameOf(x) \in Unsent(p)'
    BY DEF Unsent, o
  <2>1. FrameOf(x) \in Unsent(p) /\ FrameOf(x) \in Outgoing(p)
    BY DEF Unsent, Outgoing, o
  <2>2. ~(x.type = t /\ x.id = a.id)
    BY <1>4, <1>8, <2>1
  <2>3. x \in ToSet(outgoing'[p])
    BY <1>5, <1>7, <2>2
  <2> QED
    BY <2>3 DEF Unsent
<1>10. ASSUME NEW f, f.type = "PUBLISH", f.arg = 0, f \in Published(p), f \in Outgoing(p)
       PROVE  f \in Outgoing(p)'
  <2>1. PICK x \in ToSet(o) : FrameOf(x) = f
    BY <1>10 DEF Outgoing, o
  <2>2. ~(f.type = t /\ f.id = a.id)
    <3> SUFFICES ASSUME f.type = t, f.id = a.id PROVE FALSE
      OBVIOUS
    <3>1. a.type \in {"PUBACK", "PUBREC"}
      BY <1>3, <1>10 DEF t, RequestType, Acks
    <3>2. PICK g \in Published(p) : g.id = a.id /\ g.arg # 0
      BY <1>1, <3>1 DEF SafeInv, Acknowledged, AcknowledgesHeld, Answers
    <3>3. g = f
      BY <1>10, <3>2 DEF SafeInv, Identified
    <3> QED
      BY <1>10, <3>2, <3>3
  <2>3. x \in ToSet(outgoing'[p])
    BY <1>4, <1>5, <1>7, <2>1, <2>2
  <2> QED
    BY <2>1, <2>3 DEF Outgoing
<1>11. \E more \in Seq(FrameType) :
         Wire(q)' = Wire(q) \o more /\ \A f \in ToSet(more) : f.type # "PUBLISH"
  <2>1. CASE Writes(p, <<pubrel>>)
    <3> DEFINE more == <<pubrel>>
    <3>1. more \in Seq(FrameType) /\ ToSet(more) = {pubrel}
      BY <1>6, SingleEntry
    <3>2. Wire(q)' = Wire(q) \o more
      BY <1>1, <2>1, <3>1, WireWritten
    <3> HIDE DEF more
    <3> QED
      BY <1>6, <3>1, <3>2
  <2>2. CASE UNCHANGED net
    <3> DEFINE more == <<>>
    <3>1. Wire(q)' = Wire(q) /\ Wire(q) \in Seq(FrameType)
      BY <1>0, <1>1, <2>2, WireTyped DEF Wire
    <3>2. more \in Seq(FrameType) /\ ToSet(more) = {} /\ Wire(q)' = Wire(q) \o more
      BY <3>1, NoEntry
    <3> HIDE DEF more
    <3> QED
      BY <3>2
  <2> QED
    BY <1>3, <2>1, <2>2
<1>12. PICK more \in Seq(FrameType) :
         Wire(q)' = Wire(q) \o more /\ \A f \in ToSet(more) : f.type # "PUBLISH"
  BY <1>11
<1>13. Adds(p, more)
  BY <1>2, <1>12 DEF Adds
<1> QED
  BY <1>1, <1>9, <1>10, <1>12, <1>13, LineQuiet

\* The step writes no publication to the stream on the other side of p.
AddsQuietly(p) == \E more : Adds(p, more) /\ \A f \in ToSet(more) : f.type # "PUBLISH"

(* Nothing is written to that stream.                                       *)
LEMMA NothingAdded ==
    ASSUME TypeOK, NEW p \in Peers, Wire(Other(p))' = Wire(Other(p)), ReceiverSame(Other(p))
    PROVE  AddsQuietly(p)
<1> DEFINE more == <<>>
<1>1. Wire(Other(p)) \in Seq(FrameType)
  BY OtherPeer, WireTyped
<1>2. /\ more \in Seq(FrameType) /\ ToSet(more) = {}
      /\ Wire(Other(p))' = Wire(Other(p)) \o more
  BY <1>1, NoEntry
<1> HIDE DEF more
<1> QED
  BY <1>2 DEF AddsQuietly, Adds

(* Either stream writes a frame that is no publication.                     *)
LEMMA FrameAdded ==
    ASSUME TypeOK, NEW p \in Peers, NEW r \in Peers, NEW f \in FrameType, f.type # "PUBLISH",
           Writes(r, <<f>>), UNCHANGED buffer \/ (r = p /\ buffer'[Other(p)] = buffer[Other(p)]),
           alive[Other(p)], ReceiverSame(Other(p))
    PROVE  AddsQuietly(p)
<1> DEFINE more == <<f>>
<1>1. more \in Seq(FrameType) /\ ToSet(more) = {f}
  BY SingleEntry
<1>2. CASE r = p
  <2>1. Wire(Other(p))' = Wire(Other(p)) \o more
    BY <1>1, <1>2, WireWritten
  <2> HIDE DEF more
  <2> QED
    BY <1>1, <2>1 DEF AddsQuietly, Adds
<1>3. CASE r # p
  <2>1. r = Other(p) /\ UNCHANGED buffer
    BY <1>3, OtherPeer
  <2>2. net'[r] = net[r]
    BY <1>1, <2>1, WireWritten
  <2> QED
    BY <2>1, <2>2, NothingAdded DEF Wire
<1> QED
  BY <1>2, <1>3

(* The calls and the environment.                                           *)
LEMMA CallAdds ==
    ASSUME TypeOK, NEW p \in Peers, alive[Other(p)], alive'[Other(p)], losses' = losses,
           \/ UNCHANGED vars \/ Tick
           \/ \E r \in Peers : \/ Connect(r) \/ Answer(r) \/ Disconnect(r) \/ ByteCall(r)
                               \/ Read(r) \/ TakeFrame(r) \/ Lose(r) \/ Crash(r)
    PROVE  AddsQuietly(p)
<1> DEFINE q == Other(p)
<1>0. q \in Peers /\ q # p /\ \A r \in Peers : r = p \/ r = q
  BY OtherPeer
<1>1. ReceiverSame(q)
  BY OtherSteps DEF Idle
<1> HIDE DEF q
<1>2. CASE UNCHANGED <<net, buffer>>
  <2>1. Wire(q)' = Wire(q)
    BY <1>2 DEF Wire
  <2> QED
    BY <1>1, <2>1, NothingAdded DEF q
<1>3. CASE UNCHANGED vars \/ Tick \/ \E r \in Peers : ByteCall(r) \/ TakeFrame(r)
  BY <1>2, <1>3 DEF vars, Tick, ByteCall, TakeFrame
<1>4. ASSUME NEW r \in Peers, Connect(r) PROVE AddsQuietly(p)
  <2>1. PICK ka \in KeepAlives : Writes(r, <<Frame("CONNECT", NoId, ka)>>)
    BY <1>4 DEF Connect
  <2> DEFINE f == Frame("CONNECT", NoId, ka)
  <2>2. f \in FrameType
    BY AppAssumption, FrameTyped DEF FrameTypes
  <2>3. f.type # "PUBLISH" /\ UNCHANGED buffer
    BY <1>4 DEF Frame, Connect
  <2>4. Writes(r, <<f>>)
    BY <2>1
  <2> HIDE DEF f
  <2> QED
    BY <1>1, <2>2, <2>3, <2>4, FrameAdded DEF q
<1>5. ASSUME NEW r \in Peers, Answer(r) PROVE AddsQuietly(p)
  <2>1. PICK x \in todo[r], code \in ReturnCodes :
             Writes(r, <<Frame(AnswerType(x.type), x.id, code)>>)
    BY <1>5 DEF Answer
  <2> DEFINE f == Frame(AnswerType(x.type), x.id, code)
  <2>2. x \in FrameType /\ x.type \in Requests /\ code \in Nat
    BY AppAssumption DEF TypeOK
  <2>3. AnswerType(x.type) \in FrameTypes \ {"PUBLISH"}
    BY <2>2 DEF AnswerType, Requests, FrameTypes
  <2>4. x.id \in PacketIds \cup {NoId}
    BY <2>2 DEF FrameType
  <2>5. f \in FrameType
    BY <2>2, <2>3, <2>4, FrameTyped
  <2>6. f.type # "PUBLISH" /\ UNCHANGED buffer
    BY <1>5, <2>3 DEF Frame, Answer
  <2>7. Writes(r, <<f>>)
    BY <2>1
  <2> HIDE DEF f
  <2> QED
    BY <1>1, <2>5, <2>6, <2>7, FrameAdded DEF q
<1>6. ASSUME NEW r \in Peers, Disconnect(r) PROVE AddsQuietly(p)
  <2> DEFINE f == Frame("DISCONNECT", NoId, 0)
  <2>1. f \in FrameType
    BY FrameTyped DEF FrameTypes
  <2>2. f.type # "PUBLISH" /\ UNCHANGED buffer
    BY <1>6 DEF Frame, Disconnect
  <2>3. Writes(r, <<f>>)
    BY <1>6 DEF Disconnect
  <2> HIDE DEF f
  <2> QED
    BY <1>1, <2>1, <2>2, <2>3, FrameAdded DEF q
<1>7. ASSUME NEW r \in Peers, Read(r) PROVE AddsQuietly(p)
  <2>1. Wire(q)' = Wire(q)
    BY <1>0, <1>7, WireRead DEF q
  <2> QED
    BY <1>1, <2>1, NothingAdded DEF q
<1>8. ASSUME NEW r \in Peers, Lose(r) PROVE FALSE
  <2>1. losses' = losses + 1 /\ losses \in Nat
    BY <1>8, NumbersAssumption DEF Lose, TypeOK
  <2> QED
    BY <2>1
<1>9. ASSUME NEW r \in Peers, Crash(r) PROVE AddsQuietly(p)
  <2>1. r # q
    <3> SUFFICES ASSUME r = q PROVE FALSE
      OBVIOUS
    <3>1. ~alive'[q]
      BY <1>0, <1>9 DEF Crash, TypeOK
    <3> QED
      BY <3>1 DEF q
  <2>2. net'[q] = net[q] /\ UNCHANGED buffer
    BY <1>0, <1>9, <2>1 DEF Crash, TypeOK
  <2>3. Wire(q)' = Wire(q)
    BY <2>2 DEF Wire
  <2> QED
    BY <1>1, <2>3, NothingAdded DEF q
<1> QED
  BY <1>3, <1>4, <1>5, <1>6, <1>7, <1>8, <1>9

(* What the other stream publishes, requests and writes again goes to p.    *)
LEMMA OtherSideAdds ==
    ASSUME TypeOK, QueuesRequests, NEW p \in Peers,
           Publish(Other(p)) \/ Request(Other(p)) \/ DoTime(Other(p))
    PROVE  AddsQuietly(p)
<1> DEFINE q == Other(p)
<1>0. q \in Peers /\ q # p /\ Other(q) = p
  BY OtherPeer
<1>1. ReceiverSame(q)
  BY <1>0, SubmitSteps, TimeSteps DEF Idle
<1> HIDE DEF q
<1>2. UNCHANGED net \/ \E frames : Writes(q, frames)
  BY DEF Publish, Request, Submit, DoTime, ResendHead, AbandonHead, WriteNext,
         NothingToWrite, TimeWrites, q
<1>3. net'[q] = net[q]
  BY <1>0, <1>2 DEF Writes, TypeOK
<1>4. UNCHANGED buffer
  BY DEF Publish, Request, DoTime
<1>5. Wire(q)' = Wire(q)
  BY <1>3, <1>4 DEF Wire
<1> QED
  BY <1>1, <1>5, NothingAdded DEF q

(* stream_mqtt_handle_received_frame of p answers, but never publishes.     *)
LEMMA HandlingAdds ==
    ASSUME TypeOK, NEW p \in Peers, HandleReceivedFrame(p), ~HandlesAnAck(p), alive[Other(p)]
    PROVE  AddsQuietly(p)
<1> DEFINE q == Other(p)
           x == Head(buffer[p])
<1>0. q \in Peers /\ q # p
  BY OtherPeer
<1>1. /\ buffer' = [buffer EXCEPT ![p] = Tail(@)]
      /\ \/ ReceiveConnect(p, x) \/ ReceiveConnack(p, x) \/ ReceiveForApplication(p, x)
         \/ ReceivePing(p, x) \/ ReceivePublish(p, x) \/ ReceivePubrel(p, x)
  BY DEF HandleReceivedFrame, HandlesAnAck
<1>2. x \in FrameType
  BY HandlingWay
<1>3. ReceiverSame(q)
  BY <1>1, HandlesOther, HandlesPublish, HandlesPubrel DEF Idle
<1>4. buffer'[q] = buffer[q]
  BY <1>0, <1>1 DEF TypeOK
<1> HIDE DEF x, q
<1>5. x.id \in PacketIds \cup {NoId}
  BY <1>2 DEF FrameType
<1>6. CASE UNCHANGED net
  <2>1. Wire(q)' = Wire(q)
    BY <1>4, <1>6 DEF Wire
  <2> QED
    BY <1>3, <2>1, NothingAdded DEF q
<1>7. ASSUME NEW type \in FrameTypes, NEW id \in PacketIds \cup {NoId}, type # "PUBLISH",
             Writes(p, <<Frame(type, id, 0)>>)
      PROVE  AddsQuietly(p)
  <2> DEFINE f == Frame(type, id, 0)
  <2>1. f \in FrameType
    BY FrameTyped
  <2>2. f.type # "PUBLISH" /\ Writes(p, <<f>>)
    BY <1>7 DEF Frame
  <2> HIDE DEF f
  <2> QED
    BY <1>3, <1>4, <2>1, <2>2, FrameAdded DEF q
<1>8. \/ UNCHANGED net
      \/ \E type \in {"PUBREC", "PUBACK", "PUBCOMP", "PINGRESP"}, id \in {x.id, NoId} :
           Writes(p, <<Frame(type, id, 0)>>)
  BY <1>1 DEF ReceiveConnect, ReceiveConnack, ReceiveForApplication, ReceivePing,
              ReceivePublish, ReceivePubrel
<1> QED
  BY <1>5, <1>6, <1>7, <1>8 DEF FrameTypes

(* The steps that leave the queue of the sender.                            *)
LEMMA LineOther ==
    ASSUME TypeOK, QueuesRequests, [Next]_vars, NEW p \in Peers, Leaves(p),
           ~Publish(p), ~Request(p), ~DoTime(p), ~HandlesAnAck(p),
           ~HandleReceivedFrame(Other(p)),
           alive[Other(p)], alive'[Other(p)], losses' = losses, SafeInv(p), LineInv(p)
    PROVE  LineInv(p)'
<1>1. AddsQuietly(p)
  <2>1. \A r \in Peers : r = p \/ r = Other(p)
    BY OtherPeer
  <2> QED
    BY <2>1, CallAdds, OtherSideAdds, HandlingAdds DEF Next
<1>2. PICK more : Adds(p, more) /\ \A f \in ToSet(more) : f.type # "PUBLISH"
  BY <1>1 DEF AddsQuietly
<1>3. published'[p] = published[p] /\ outgoing'[p] = outgoing[p]
  BY DEF Leaves
<1>4. Unsent(p)' = Unsent(p) /\ Outgoing(p)' = Outgoing(p)
  BY <1>3 DEF Unsent, Outgoing
<1> QED
  BY <1>2, <1>3, <1>4, LineQuiet

(* A stream receives nothing in a step in which it handles no frame.        *)
LEMMA ReceiverRests ==
    ASSUME TypeOK, QueuesRequests, [Next]_vars, NEW p \in Peers,
           ~HandleReceivedFrame(Other(p))
    PROVE  ReceiverSame(Other(p))
<1>0. \A r \in Peers : r = p \/ r = Other(p)
  BY OtherPeer
<1>1. CASE \/ UNCHANGED vars \/ Tick
           \/ \E r \in Peers : \/ Connect(r) \/ Answer(r) \/ Disconnect(r) \/ ByteCall(r)
                               \/ Read(r) \/ TakeFrame(r) \/ Lose(r) \/ Crash(r)
  BY <1>1, OtherSteps DEF Idle
<1>2. ASSUME NEW r \in Peers, Publish(r) \/ Request(r) \/ DoTime(r)
      PROVE  ReceiverSame(Other(p))
  <2>1. CASE r = p
    BY <1>2, <2>1, SubmitSteps, TimeSteps DEF Submits, Resends
  <2>2. CASE r # p
    BY <1>0, <1>2, <2>2, SubmitSteps, TimeSteps, OtherPeer DEF Idle
  <2> QED
    BY <2>1, <2>2
<1>3. CASE HandleReceivedFrame(p)
  <2> DEFINE x == Head(buffer[p])
  <2>1. \/ ReceiveConnect(p, x) \/ ReceiveConnack(p, x) \/ ReceiveForApplication(p, x)
        \/ ReceivePublish(p, x) \/ ReceiveAck(p, x) \/ ReceivePubrel(p, x)
        \/ ReceivePing(p, x)
    BY <1>3 DEF HandleReceivedFrame
  <2> QED
    BY <1>3, <2>1, HandlesOther, HandlesPublish, HandlesPubrel, HandlesAck DEF Idle, TakesAck
<1> QED
  BY <1>0, <1>1, <1>2, <1>3 DEF Next

(* A process that stopped stays stopped, a frame lost or given up stays so. *)
LEMMA NothingComesBack ==
    ASSUME TypeOK, QueuesRequests, [Next]_vars, NEW p \in Peers
    PROVE  /\ alive'[p] => alive[p]
           /\ losses' = 0 => losses' = losses
           /\ abandoned'[p] = {} => abandoned[p] = {}
           /\ HandleReceivedFrame(p) => alive[p] /\ alive'[p]
<1>1. UNCHANGED envVars => (alive'[p] => alive[p]) /\ losses' = losses
  BY DEF envVars
<1>2. ASSUME NEW r \in Peers, Lose(r) \/ Crash(r)
      PROVE  (alive'[p] => alive[p]) /\ (losses' = 0 => losses' = losses)
  <2>1. CASE Lose(r)
    <3>1. losses' = losses + 1 /\ losses \in Nat /\ UNCHANGED alive
      BY <2>1, NumbersAssumption DEF Lose, TypeOK
    <3> QED
      BY <3>1
  <2>2. CASE Crash(r)
    <3>1. alive' = [alive EXCEPT ![r] = FALSE] /\ losses' = losses
      BY <2>2 DEF Crash
    <3>2. alive \in [Peers -> BOOLEAN]
      BY DEF TypeOK
    <3> QED
      BY <3>1, <3>2, Zenon
  <2> QED
    BY <1>2, <2>1, <2>2
<1>3. UNCHANGED envVars \/ \E r \in Peers : Lose(r) \/ Crash(r)
  BY DEF Next, vars, Tick, Connect, Answer, Publish, Request, Disconnect, ByteCall, Read,
         HandleReceivedFrame, TakeFrame, DoTime
<1>4. Kind(p)
  BY StepKinds
<1>5. Abandoned(p) \subseteq Abandoned(p)'
  BY <1>4 DEF Kind, Idle, Submits, Resends, TakesPublish, TakesPubrel, TakesAck, SenderSame
<1>6. abandoned'[p] = {} => abandoned[p] = {}
  BY <1>5 DEF Abandoned
<1>7. HandleReceivedFrame(p) => alive[p] /\ alive'[p]
  BY DEF HandleReceivedFrame, envVars
<1> QED
  BY <1>1, <1>2, <1>3, <1>6, <1>7

(* Nothing is received, not even what stream_mqtt_publish has just written. *)
LEMMA ArrivedKept ==
    ASSUME TypeOK, [Next]_vars, NEW p \in Peers, SafeInv(p), Arrived(p),
           ReceiverSame(Other(p))
    PROVE  Arrived(p)'
<1> DEFINE q == Other(p)
<1>1. \A f \in Published(p) : f.type = "PUBLISH"
  BY DEF SafeInv, Identified
<1>2. \A f : f.type = "PUBLISH" => (f \in Got(q)' <=> f \in Got(q))
  BY DEF ReceiverSame, SameReceived
<1> HIDE DEF q
<1>3. ASSUME NEW f, NEW g, Before(published[p], f, g), g \in Got(q)'
      PROVE  f \in Got(q)'
  <2>1. f \in Published(p) /\ g \in Published(p)
    BY <1>3, BeforeEntries DEF Published
  <2> QED
    BY <1>1, <1>2, <1>3, <2>1 DEF Arrived, q
<1>4. CASE published'[p] = published[p]
  BY <1>3, <1>4 DEF Arrived, q
<1>5. CASE Publish(p)
  <2>1. PICK m :
          /\ m.type = "PUBLISH" /\ \A g \in Published(p) : g.id # m.id
          /\ \A x, y : Before(published'[p], x, y) <=>
               Before(published[p], x, y) \/ (x \in Published(p) /\ y = m)
    BY <1>5, PublishAppends
  <2>2. m \notin Got(q)
    BY <2>1, UnpublishedUnknown DEF q
  <2>3. m \notin Got(q)'
    BY <1>2, <2>1, <2>2
  <2> QED
    BY <1>3, <2>1, <2>3 DEF Arrived, q
<1>6. published'[p] = published[p] \/ Publish(p)
  <2>1. ASSUME NEW r \in Peers, Publish(r), r # p PROVE published'[p] = published[p]
    BY <2>1, PublishAppends
  <2> QED
    BY <2>1, PublishedStays
<1> QED
  BY <1>4, <1>5, <1>6

(* Every step of the two streams keeps the line while the receiver runs.    *)
LEMMA LineStep ==
    ASSUME TypeOK, AllFlight, [Next]_vars, NEW p \in Peers, PublishedOnce(p), LineInv(p),
           alive[Other(p)], alive'[Other(p)], losses' = losses,
           abandoned[p] = {}, abandoned'[p] = {}
    PROVE  LineInv(p)'
<1>1. /\ QueuesRequests /\ SafeInv(p) /\ CareInv(p) /\ RequestInv(p) /\ FlightInv(p)
  BY DEF AllFlight, AllSafe
<1>2. CASE Publish(p) \/ Request(p)
  BY <1>1, <1>2, LineCall
<1>3. CASE DoTime(p)
  BY <1>1, <1>3, LineTime
<1>4. CASE HandlesAnAck(p)
  BY <1>1, <1>4, LineAck
<1>5. CASE HandleReceivedFrame(Other(p))
  BY <1>1, <1>5, LineHandled
<1>6. CASE /\ ~Publish(p) /\ ~Request(p) /\ ~DoTime(p) /\ ~HandlesAnAck(p)
           /\ ~HandleReceivedFrame(Other(p))
  <2>1. Leaves(p)
    BY <1>1, <1>6, StepLeaves
  <2> QED
    BY <1>1, <1>6, <2>1, LineOther
<1> QED
  BY <1>2, <1>3, <1>4, <1>5, <1>6

(* And so publications arrive in order, whether it runs or not.             *)
LEMMA ArriveStep ==
    ASSUME TypeOK, AllFlight, AllFlight', [Next]_vars, NEW p \in Peers,
           PublishedOnce(p), ArriveInv(p)
    PROVE  ArriveInv(p)'
<1> DEFINE q == Other(p)
<1>0. q \in Peers
  BY OtherPeer
<1> SUFFICES ASSUME losses' = 0, abandoned'[p] = {}
             PROVE  Arrived(p)' /\ (alive'[q] => LineInv(p)')
  BY DEF ArriveInv
<1>1. QueuesRequests /\ SafeInv(p) /\ FlightInv(p)'
  BY DEF AllFlight, AllSafe
<1>2. /\ losses' = losses /\ abandoned[p] = {}
      /\ alive'[q] => alive[q]
      /\ HandleReceivedFrame(q) => alive[q] /\ alive'[q]
  BY <1>0, <1>1, NothingComesBack
<1>3. Arrived(p) /\ (alive[q] => LineInv(p))
  BY <1>2 DEF ArriveInv
<1>4. CASE alive'[q]
  <2>1. LineInv(p)'
    BY <1>2, <1>3, <1>4, LineStep
  <2>2. Fresh(p)'
    BY <1>1 DEF FlightInv
  <2>3. ASSUME NEW f, NEW g, Before(published[p], f, g)', g \in Got(q)'
        PROVE  f \in Got(q)'
    <3>1. g \notin Unsent(p)'
      BY <2>2, <2>3 DEF Fresh, Known
    <3>2. InLine(p, f, g)'
      BY <2>1, <2>3, <3>1 DEF LineInv
    <3> QED
      BY <2>3, <3>2 DEF InLine
  <2> QED
    BY <2>1, <2>3 DEF Arrived
<1>5. CASE ~alive'[q]
  <2>1. ReceiverSame(q)
    BY <1>1, <1>2, <1>5, ReceiverRests
  <2> QED
    BY <1>1, <1>3, <1>5, <2>1, ArrivedKept
<1> QED
  BY <1>4, <1>5

\* The invariant behind InOrder, of both streams.
AllArrive == AllFlight /\ \A p \in Peers : PublishedOnce(p) /\ ArriveInv(p)

(* Streams that stream_mqtt_open returns have published nothing.            *)
LEMMA ArriveInit == Init => AllArrive
<1> SUFFICES ASSUME Init, NEW p \in Peers PROVE PublishedOnce(p) /\ ArriveInv(p)
  BY FlightInit DEF AllArrive
<1>1. published[p] = <<>> /\ Published(p) = {}
  BY InitEmpty DEF Init
<1>2. \A f, g : ~Before(published[p], f, g)
  BY <1>1, NoEntry
<1> QED
  BY <1>1, <1>2 DEF PublishedOnce, ArriveInv, Arrived, LineInv

(* Publications do not overtake each other on their way through             *)
(* stream_mqtt_publish, stream_mqtt_do_time and the receiver: without a     *)
(* loss a receiver that has one has all that were published before it.      *)
THEOREM PublicationsInOrder == Spec => []InOrder
<1>1. TypeOK /\ AllArrive => OneInFlight
  BY FlightIsOne DEF AllArrive
<1>2. TypeOK /\ AllArrive => ArrivesInOrder
  <2> SUFFICES ASSUME TypeOK, AllArrive, NEW p \in Peers, losses = 0, abandoned[p] = {},
                      NEW i \in DOMAIN published[p], NEW j \in DOMAIN published[p],
                      i < j, published[p][j] \in ToSet(Received(Other(p)))
               PROVE  published[p][i] \in ToSet(Received(Other(p)))
    BY DEF ArrivesInOrder
  <2>1. Arrived(p)
    BY DEF AllArrive, ArriveInv
  <2>2. Before(published[p], published[p][i], published[p][j])
    BY DEF Before
  <2> QED
    BY <2>1, <2>2 DEF Arrived, Got
<1>3. TypeOK /\ AllArrive /\ [Next]_vars => AllArrive'
  <2> SUFFICES ASSUME TypeOK, AllArrive, [Next]_vars PROVE AllArrive'
    OBVIOUS
  <2>1. AllFlight'
    BY FlightStep DEF AllArrive
  <2>2. \A p \in Peers : PublishedOnce(p)' /\ ArriveInv(p)'
    BY <2>1, PublishedStep, ArriveStep DEF AllArrive
  <2> QED
    BY <2>1, <2>2 DEF AllArrive
<1>4. TypeOK /\ AllArrive => InOrder
  BY <1>1, <1>2 DEF InOrder
<1> QED
  BY <1>3, <1>4, ArriveInit, TypeInit, TypeStep, PTL DEF Spec

-----------------------------------------------------------------------------
(* StaysUp: how the two keep-alive timers depend on each other.             *)

\* The hypothesis of StaysUp.
Undisturbed ==
    /\ Prompt /\ losses = 0 /\ \A p \in Peers : alive[p]
    /\ \A f \in ToSet(delivered[Client]) : f.type = "CONNACK" => f.arg = 0

\* The frames of the keep-alive, and those on their way to q.
SignalTypes == {"CONNECT", "CONNACK", "PINGREQ", "PINGRESP"}

SignalsIn(F) == {f \in F : f.type \in SignalTypes}

Signals(q) == SignalsIn(OnWire(q))

\* What q has received and not answered, and what it has been refused with.
AskingIn(F) == {f \in F : f.type = "CONNECT"}

Asking(q) == AskingIn(ToSet(incoming[q]) \cup todo[q])

RefusalsIn(F) == {f \in F : f.type = "CONNACK" /\ f.arg # 0}

Refusals(q) == RefusalsIn(ToSet(incoming[q]))

Signalled(q, type) == \E f \in Signals(q) : f.type = type

\* The interval the server grants, and the two timers.
Granted == WithMargin(keep_alive[Client])

Beat == keep_alive_timer[Client]

Watch == keep_alive_timer[Server]

\* The server has accepted or will answer the client.
Considered == Asking(Server) # {} \/ Signalled(Client, "CONNACK")

Connecting == Signalled(Server, "CONNECT") \/ Considered \/ Refusals(Client) # {}

\* Who says what.
Sided ==
    /\ ~client_role[Server] /\ Asking(Client) = {}
    /\ \A f \in Signals(Client) : f.type \in {"CONNACK", "PINGRESP"}
    /\ \A f \in Signals(Server) : f.type \in {"CONNECT", "PINGREQ"}
    /\ \A f \in Signals(Server) \cup Asking(Server) :
         f.type = "CONNECT" => f.arg = keep_alive[Client]
    /\ ~client_role[Client] =>
         /\ Signals(Client) = {} /\ Signals(Server) = {}
         /\ Asking(Server) = {} /\ Refusals(Client) = {}
         /\ Beat = Stopped /\ Watch = Stopped

\* Before the client is accepted: the timer of the server may run already.
Unaccepted ==
    /\ Connecting => Watch \in {Stopped, Started(Granted)}
    /\ Considered /\ keep_alive[Client] > 0 =>
         Watch = Started(Granted) /\ keep_alive[Server] = Granted
    /\ keep_alive[Client] = 0 => Beat = Stopped /\ Watch = Stopped
    /\ Beat = Stopped =>
         /\ keep_alive_responded[Client] /\ ~Signalled(Server, "PINGREQ")
         /\ Watch = Stopped \/ (Connecting /\ Watch = Started(Granted))

\* A client that is accepted pings before the server closes, and is answered
\* before it pings again.
Beating ==
    Beat # Stopped =>
        /\ keep_alive[Client] > 0 /\ keep_alive[Server] = Granted
        /\ Beat.interval = keep_alive[Client] /\ Beat.left <= keep_alive[Client]
        /\ Watch.left > 0
        /\ Signalled(Server, "PINGREQ") \/ Watch.left > Beat.left
        /\ \/ keep_alive_responded[Client]
           \/ /\ Beat.left > 0
              /\ Signalled(Server, "PINGREQ") \/ Signalled(Client, "PINGRESP")

Up ==
    /\ \A p \in Peers : status[p] # "CLOSING"
    /\ Sided /\ Unaccepted /\ Beating

UpInv == Undisturbed => Up

(* What is written to a peer that runs.                                     *)
LEMMA SignalsWritten ==
    ASSUME TypeOK, NEW p \in Peers, NEW frames \in Seq(FrameType), Writes(p, frames),
           alive[Other(p)], buffer'[Other(p)] = buffer[Other(p)]
    PROVE  Signals(Other(p))' = Signals(Other(p)) \cup SignalsIn(ToSet(frames))
<1> DEFINE q == Other(p)
           w == Wire(q)
<1>1. w \in Seq(FrameType)
  BY OtherPeer, WireTyped
<1>2. Wire(q)' = w \o frames
  BY WireWritten
<1> HIDE DEF w
<1>3. ToSet(w \o frames) = ToSet(w) \cup ToSet(frames)
  BY <1>1, ConcatEntries
<1>4. OnWire(q)' = OnWire(q) \cup ToSet(frames)
  BY <1>2, <1>3 DEF OnWire, w
<1> QED
  BY <1>4 DEF Signals, SignalsIn

(* A single frame that is written.                                          *)
LEMMA SignalWritten ==
    ASSUME TypeOK, NEW p \in Peers, NEW f \in FrameType, Writes(p, <<f>>),
           alive[Other(p)], buffer'[Other(p)] = buffer[Other(p)]
    PROVE  /\ Signals(Other(p))' = Signals(Other(p)) \cup SignalsIn({f})
           /\ net'[p] = net[p]
<1> DEFINE frames == <<f>>
<1>1. frames \in Seq(FrameType) /\ ToSet(frames) = {f} /\ Writes(p, frames)
  BY SingleEntry
<1> HIDE DEF frames
<1> QED
  BY <1>1, SignalsWritten, WireWritten

(* stream_mqtt_handle_received_frame takes the first frame.                 *)
LEMMA SignalHandled ==
    ASSUME TypeOK, NEW p \in Peers, HandleReceivedFrame(p)
    PROVE  LET f == Head(buffer[p])
           IN  /\ f \in FrameType /\ Signals(p) = Signals(p)' \cup SignalsIn({f})
               /\ buffer'[Other(p)] = buffer[Other(p)]
               /\ net'[p] = net[p]
               /\ UNCHANGED client_role
<1> DEFINE f == Head(buffer[p])
<1>0. Other(p) \in Peers /\ Other(p) # p
  BY OtherPeer
<1>1. /\ buffer[p] # <<>> /\ buffer' = [buffer EXCEPT ![p] = Tail(@)]
      /\ UNCHANGED client_role
      /\ \/ ReceiveConnect(p, f) \/ ReceiveConnack(p, f) \/ ReceiveForApplication(p, f)
         \/ ReceivePublish(p, f) \/ ReceiveAck(p, f) \/ ReceivePubrel(p, f)
         \/ ReceivePing(p, f)
  BY DEF HandleReceivedFrame
<1>2. (\E frames : Writes(p, frames)) \/ UNCHANGED net
  <2> HIDE DEF f
  <2> QED
    BY <1>1 DEF ReceiveConnect, ReceiveConnack, ReceiveForApplication, ReceivePublish,
                ReceiveAck, ReceivePubrel, ReceivePing
<1>3. net'[p] = net[p]
  BY <1>0, <1>2 DEF Writes, TypeOK
<1>4. f \in FrameType /\ Wire(p) = <<f>> \o Wire(p)' /\ Wire(p)' \in Seq(FrameType)
  BY <1>1, <1>3, WireHandled
<1>5. buffer'[Other(p)] = buffer[Other(p)]
  BY <1>0, <1>1 DEF TypeOK
<1> DEFINE w == Wire(p)'
<1> HIDE DEF f, w
<1>6. ToSet(<<f>> \o w) = ToSet(<<f>>) \cup ToSet(w) /\ ToSet(<<f>>) = {f}
  <2>1. w \in Seq(FrameType) /\ <<f>> \in Seq(FrameType)
    BY <1>4 DEF w
  <2> QED
    BY <2>1, ConcatEntries, SingleEntry
<1>7. OnWire(p) = OnWire(p)' \cup {f}
  BY <1>4, <1>6 DEF OnWire, w
<1>8. Signals(p) = Signals(p)' \cup SignalsIn({f})
  BY <1>7 DEF Signals, SignalsIn
<1> QED
  BY <1>1, <1>3, <1>4, <1>5, <1>8 DEF f

(* stream_mqtt_notify_observer.                                             *)
LEMMA AskingNotified ==
    ASSUME TypeOK, NEW p \in Peers, NEW frames \in Seq(FrameType), Notify(p, frames)
    PROVE  /\ Asking(p)' = Asking(p) \cup AskingIn(ToSet(frames))
           /\ \/ Refusals(p)' = Refusals(p) \cup RefusalsIn(ToSet(frames))
              \/ Refusals(p)' = Refusals(p) /\ ToSet(frames) \subseteq ToSet(delivered'[p])
           /\ Asking(Other(p))' = Asking(Other(p)) /\ Refusals(Other(p))' = Refusals(Other(p))
<1>0. Other(p) \in Peers /\ Other(p) # p
  BY OtherPeer
<1>1. delivered[p] \in Seq(FrameType) /\ incoming[p] \in Seq(FrameType)
  BY DEF TypeOK
<1>2. CASE Hand(p, frames) /\ UNCHANGED incoming
  <2>1. /\ delivered'[p] = delivered[p] \o frames
        /\ todo'[p] = todo[p] \cup {f \in ToSet(frames) : f.type \in Requests}
        /\ todo'[Other(p)] = todo[Other(p)]
    BY <1>0, <1>2 DEF Hand, TypeOK
  <2>2. ToSet(frames) \subseteq ToSet(delivered'[p])
    BY <1>1, <2>1, ConcatEntries
  <2>3. Asking(p)' = Asking(p) \cup AskingIn(ToSet(frames))
    BY <1>2, <2>1 DEF Asking, AskingIn, Requests
  <2>4. Asking(Other(p))' = Asking(Other(p)) /\ \A q : Refusals(q)' = Refusals(q)
    BY <1>2, <2>1 DEF Asking, Refusals
  <2> QED
    BY <2>2, <2>3, <2>4
<1>3. CASE incoming' = [incoming EXCEPT ![p] = @ \o frames] /\ UNCHANGED <<delivered, todo>>
  <2>1. incoming'[p] = incoming[p] \o frames /\ incoming'[Other(p)] = incoming[Other(p)]
    BY <1>0, <1>3 DEF TypeOK
  <2>2. ToSet(incoming'[p]) = ToSet(incoming[p]) \cup ToSet(frames)
    BY <1>1, <2>1, ConcatEntries
  <2>3. Asking(p)' = Asking(p) \cup AskingIn(ToSet(frames))
    BY <1>3, <2>2 DEF Asking, AskingIn
  <2>4. Refusals(p)' = Refusals(p) \cup RefusalsIn(ToSet(frames))
    BY <2>2 DEF Refusals, RefusalsIn
  <2>5. Asking(Other(p))' = Asking(Other(p)) /\ Refusals(Other(p))' = Refusals(Other(p))
    BY <1>3, <2>1 DEF Asking, Refusals
  <2> QED
    BY <2>3, <2>4, <2>5
<1> QED
  BY <1>2, <1>3 DEF Notify

(* Steps that have nothing to do with the keep-alive.                       *)
Quiet ==
    /\ UNCHANGED linkVars
    /\ \A q \in Peers : Signals(q)' = Signals(q) /\ Asking(q)' = Asking(q)
    /\ Refusals(Client)' = Refusals(Client)

(* stream_mqtt_read_frame.                                                  *)
LEMMA TakeFrameQuiet ==
    ASSUME TypeOK, NEW p \in Peers, TakeFrame(p), Undisturbed'
    PROVE  Quiet
<1> DEFINE i == incoming[p]
           h == Head(i)
           t == Tail(i)
<1>1. i \in Seq(FrameType) /\ i # <<>> /\ delivered[p] \in Seq(FrameType)
  BY DEF TakeFrame, TypeOK
<1>2. h \in FrameType /\ ToSet(i) = {h} \cup ToSet(t)
  BY <1>1, HeadEntries
<1>3. /\ incoming'[p] = t /\ delivered'[p] = delivered[p] \o <<h>>
      /\ todo'[p] = todo[p] \cup {f \in ToSet(<<h>>) : f.type \in Requests}
      /\ \A q \in Peers : q # p => incoming'[q] = incoming[q] /\ todo'[q] = todo[q]
      /\ UNCHANGED linkVars /\ UNCHANGED <<buffer, net>>
  BY DEF TakeFrame, Hand, TypeOK
<1>4. ToSet(<<h>>) = {h}
  BY SingleEntry
<1> HIDE DEF h, t, i
<1>5. h \in ToSet(delivered'[p])
  <2>1. <<h>> \in Seq(FrameType)
    BY <1>2
  <2>2. ToSet(delivered[p] \o <<h>>) = ToSet(delivered[p]) \cup ToSet(<<h>>)
    BY <1>1, <2>1, ConcatEntries
  <2> QED
    BY <1>3, <1>4, <2>2
<1>6. Asking(p)' = Asking(p)
  BY <1>2, <1>3, <1>4 DEF Asking, AskingIn, Requests, i
<1>7. \A q \in Peers : q # p => Asking(q)' = Asking(q) /\ Refusals(q)' = Refusals(q)
  BY <1>3 DEF Asking, Refusals
<1>8. \A q \in Peers : Signals(q)' = Signals(q)
  BY <1>3 DEF Signals, OnWire, Wire
<1>9. p = Client => Refusals(Client)' = Refusals(Client)
  <2> SUFFICES ASSUME p = Client PROVE Refusals(Client)' = Refusals(Client)
    OBVIOUS
  <2>1. h.type = "CONNACK" => h.arg = 0
    BY <1>5 DEF Undisturbed
  <2> QED
    BY <1>2, <1>3, <2>1 DEF Refusals, RefusalsIn, i
<1> QED
  BY <1>3, <1>6, <1>7, <1>8, <1>9, OfClient DEF Quiet

(* The calls that write or queue a publication or a request, and reading.   *)
LEMMA CallQuiet ==
    ASSUME TypeOK, NEW p \in Peers, Publish(p) \/ Request(p) \/ Read(p), alive[Other(p)]
    PROVE  Quiet
<1>1. UNCHANGED linkVars /\ UNCHANGED <<incoming, todo>>
  BY DEF Publish, Request, Read, recvVars
<1>2. \A q \in Peers : Asking(q)' = Asking(q) /\ Refusals(q)' = Refusals(q)
  BY <1>1 DEF Asking, Refusals
<1>3. CASE Read(p)
  <2>1. \A q \in Peers : Wire(q)' = Wire(q)
    BY <1>3, WireRead, OtherPeer
  <2> QED
    BY <1>1, <1>2, <2>1, OfClient DEF Quiet, Signals, OnWire
<1>4. CASE Publish(p) \/ Request(p)
  <2>1. UNCHANGED buffer
    BY <1>4 DEF Publish, Request
  <2>2. \/ UNCHANGED net
        \/ \E f \in FrameType : f.type \notin SignalTypes /\ Writes(p, <<f>>)
    <3>1. ASSUME NEW type \in {"PUBLISH", "SUBSCRIBE", "UNSUBSCRIBE"}, NEW id \in PacketIds,
                 NEW arg \in Nat, NEW acknowledged, Submit(p, Frame(type, id, arg), acknowledged)
          PROVE  \/ UNCHANGED net
                 \/ \E f \in FrameType : f.type \notin SignalTypes /\ Writes(p, <<f>>)
      <4>1. Frame(type, id, arg) \in FrameType
        BY FrameTyped DEF FrameTypes
      <4>2. Frame(type, id, arg).type \notin SignalTypes
        BY DEF Frame, SignalTypes
      <4>3. UNCHANGED net \/ Writes(p, <<Frame(type, id, arg)>>)
        BY <3>1 DEF Submit
      <4> QED
        BY <4>1, <4>2, <4>3
    <3>2. CASE Publish(p)
      <4>1. PICK id \in PacketIds, qos \in QosLevels :
                 Submit(p, Frame("PUBLISH", id, qos), qos > 0)
        BY <3>2 DEF Publish
      <4>2. qos \in Nat
        BY AppAssumption
      <4> QED
        BY <3>1, <4>1, <4>2
    <3>3. CASE Request(p)
      BY <3>1, <3>3 DEF Request
    <3> QED
      BY <1>4, <3>2, <3>3
  <2>3. CASE UNCHANGED net
    BY <1>1, <1>2, <2>1, <2>3, OfClient DEF Quiet, Signals, OnWire, Wire
  <2>4. ASSUME NEW f \in FrameType, f.type \notin SignalTypes, Writes(p, <<f>>)
        PROVE  Quiet
    <3>1. Signals(Other(p))' = Signals(Other(p)) \cup SignalsIn({f}) /\ net'[p] = net[p]
      BY <2>1, <2>4, SignalWritten
    <3>2. SignalsIn({f}) = {}
      BY <2>4 DEF SignalsIn
    <3>3. Signals(p)' = Signals(p)
      BY <2>1, <3>1 DEF Signals, OnWire, Wire
    <3> QED
      BY <1>1, <1>2, <3>1, <3>2, <3>3, OtherPeer, OfClient DEF Quiet
  <2> QED
    BY <2>2, <2>3, <2>4
<1> QED
  BY <1>3, <1>4

(* What waits in inbound are publications.                                  *)
LEMMA WaitingPublished ==
    ASSUME AllSafe, NEW p \in Peers
    PROVE  \A f \in Waiting(p) : f.type = "PUBLISH"
<1>1. Other(p) \in Peers /\ Other(Other(p)) = p /\ SafeInv(Other(p))
  BY OtherPeer DEF AllSafe
<1> QED
  BY <1>1 DEF SafeInv, Genuine, Identified

(* stream_mqtt_handle_received_frame, for any frame that is not one of the  *)
(* keep-alive.                                                              *)
LEMMA HandlingQuiet ==
    ASSUME TypeOK, AllSafe, NEW p \in Peers, HandleReceivedFrame(p), alive[Other(p)],
           Head(buffer[p]).type \notin SignalTypes
    PROVE  Quiet
<1> DEFINE f == Head(buffer[p])
           b == inbound[p]
           waiting == {k \in DOMAIN b : b[k].id = f.id}
<1>1. /\ f \in FrameType /\ Signals(p) = Signals(p)' \cup SignalsIn({f})
      /\ buffer'[Other(p)] = buffer[Other(p)] /\ net'[p] = net[p] /\ UNCHANGED client_role
  BY SignalHandled
<1>2. \/ ReceiveConnect(p, f) \/ ReceiveConnack(p, f) \/ ReceiveForApplication(p, f)
      \/ ReceivePublish(p, f) \/ ReceiveAck(p, f) \/ ReceivePubrel(p, f)
      \/ ReceivePing(p, f)
  BY DEF HandleReceivedFrame
<1>3. f.type \notin SignalTypes
  OBVIOUS
<1>4. b \in Seq(FrameType) /\ ToSet(b) = Waiting(p)
  BY DEF TypeOK, Waiting
<1> HIDE DEF f
<1>5. \/ ReceiveForApplication(p, f) \/ ReceivePublish(p, f) \/ ReceiveAck(p, f)
      \/ ReceivePubrel(p, f)
  BY <1>2, <1>3 DEF ReceiveConnect, ReceiveConnack, ReceivePing, SignalTypes
<1>6. UNCHANGED <<status, keep_alive, keep_alive_responded, keep_alive_timer>>
  BY <1>5 DEF ReceiveForApplication, ReceivePublish, ReceiveAck, ReceivePubrel
<1>7. \/ UNCHANGED net
      \/ \E type \in {"PUBREC", "PUBACK", "PUBREL", "PUBCOMP"} :
           Writes(p, <<Frame(type, f.id, 0)>>)
  BY <1>5 DEF ReceiveForApplication, ReceivePublish, ReceiveAck, ReceivePubrel
<1>8. \/ Notify(p, <<f>>) \/ Notify(p, Only(b, waiting)) \/ UNCHANGED <<incoming, todo>>
  BY <1>5 DEF ReceiveForApplication, ReceivePublish, ReceiveAck, ReceivePubrel, recvVars
<1>9. Signals(p)' = Signals(p)
  BY <1>1, <1>3 DEF SignalsIn
<1>10. Signals(Other(p))' = Signals(Other(p))
  <2>1. CASE UNCHANGED net
    BY <1>1, <2>1 DEF Signals, OnWire, Wire
  <2>2. ASSUME NEW type \in {"PUBREC", "PUBACK", "PUBREL", "PUBCOMP"},
               Writes(p, <<Frame(type, f.id, 0)>>)
        PROVE  Signals(Other(p))' = Signals(Other(p))
    <3>1. Frame(type, f.id, 0) \in FrameType /\ Frame(type, f.id, 0).type = type
      <4>1. type \in FrameTypes
        BY DEF FrameTypes
      <4>2. \A t \in FrameTypes : Frame(t, f.id, 0) \in FrameType /\ Frame(t, f.id, 0).type = t
        BY <1>1, AnswerTyped
      <4> QED
        BY <4>1, <4>2
    <3>2. SignalsIn({Frame(type, f.id, 0)}) = {}
      BY <3>1 DEF SignalsIn, SignalTypes
    <3> QED
      BY <1>1, <2>2, <3>1, <3>2, SignalWritten
  <2> QED
    BY <1>7, <2>1, <2>2
<1>11. ASSUME NEW frames \in Seq(FrameType), Notify(p, frames),
              \A g \in ToSet(frames) : g.type \notin SignalTypes
       PROVE  \A q \in Peers : Asking(q)' = Asking(q) /\ Refusals(q)' = Refusals(q)
  <2>1. AskingIn(ToSet(frames)) = {} /\ RefusalsIn(ToSet(frames)) = {}
    BY <1>11 DEF AskingIn, RefusalsIn, SignalTypes
  <2>2. /\ Asking(p)' = Asking(p) \cup AskingIn(ToSet(frames))
        /\ \/ Refusals(p)' = Refusals(p) \cup RefusalsIn(ToSet(frames))
           \/ Refusals(p)' = Refusals(p)
        /\ Asking(Other(p))' = Asking(Other(p)) /\ Refusals(Other(p))' = Refusals(Other(p))
    BY <1>11, AskingNotified
  <2>3. Asking(p)' = Asking(p) /\ Refusals(p)' = Refusals(p)
    BY <2>1, <2>2
  <2> QED
    BY <2>2, <2>3, OtherPeer
<1>12. \A q \in Peers : Asking(q)' = Asking(q) /\ Refusals(q)' = Refusals(q)
  <2>1. CASE UNCHANGED <<incoming, todo>>
    BY <2>1 DEF Asking, Refusals
  <2>2. CASE Notify(p, <<f>>)
    <3>1. <<f>> \in Seq(FrameType) /\ ToSet(<<f>>) = {f}
      BY <1>1, SingleEntry
    <3> QED
      BY <1>3, <1>11, <2>2, <3>1
  <2>3. CASE Notify(p, Only(b, waiting))
    <3>1. Only(b, waiting) \in Seq(FrameType) /\ ToSet(Only(b, waiting)) \subseteq ToSet(b)
      <4> HIDE DEF b, waiting
      <4>1. /\ Only(b, waiting) \in Seq(FrameType)
            /\ ToSet(Only(b, waiting)) = {b[k] : k \in DOMAIN b \cap waiting}
        BY <1>4, OnlyOrder
      <4> QED
        BY <4>1 DEF ToSet
    <3>2. \A g \in ToSet(Only(b, waiting)) : g.type \notin SignalTypes
      BY <1>4, <3>1, WaitingPublished DEF SignalTypes
    <3> HIDE DEF b, waiting
    <3> QED
      BY <1>11, <2>3, <3>1, <3>2
  <2> QED
    BY <1>8, <2>1, <2>2, <2>3
<1> QED
  BY <1>1, <1>6, <1>9, <1>10, <1>12, OtherPeer, OfClient DEF Quiet, linkVars

(* A quiet step keeps everything.                                           *)
LEMMA QuietUp ==
    ASSUME Up, Quiet
    PROVE  Up'
<1>1. /\ UNCHANGED <<status, client_role, keep_alive, keep_alive_responded, keep_alive_timer>>
      /\ Signals(Client)' = Signals(Client) /\ Signals(Server)' = Signals(Server)
      /\ Asking(Client)' = Asking(Client) /\ Asking(Server)' = Asking(Server)
      /\ Refusals(Client)' = Refusals(Client)
  BY OfClient DEF Quiet, linkVars
<1>2. Considered' = Considered /\ Connecting' = Connecting
  BY <1>1 DEF Considered, Connecting, Signalled
<1>3. Sided'
  BY <1>1 DEF Up, Sided, Beat, Watch
<1>4. Unaccepted'
  BY <1>1, <1>2 DEF Up, Unaccepted, Beat, Watch, Granted, Signalled
<1>5. Beating'
  BY <1>1 DEF Up, Beating, Beat, Watch, Granted, Signalled
<1> QED
  BY <1>1, <1>3, <1>4, <1>5 DEF Up

(* stream_mqtt_connect.                                                     *)
LEMMA ConnectUp ==
    ASSUME TypeOK, Up, NEW p \in Peers, Connect(p), alive[Other(p)]
    PROVE  Up'
<1>1. p = Client /\ Other(p) = Server /\ Client \in Peers /\ Server \in Peers /\ Client # Server
  BY OfClient, PeersAssumption DEF Connect
<1>2. PICK ka \in KeepAlives :
           /\ keep_alive' = [keep_alive EXCEPT ![p] = ka]
           /\ Writes(p, <<Frame("CONNECT", NoId, ka)>>)
  BY DEF Connect
<1> DEFINE f == Frame("CONNECT", NoId, ka)
<1>3. f \in FrameType /\ f.type = "CONNECT" /\ f.arg = ka /\ ka \in Nat
  BY AppAssumption, FrameTyped DEF FrameTypes, Frame
<1>4. UNCHANGED <<status, keep_alive_responded, keep_alive_timer, incoming, todo, buffer>>
  BY DEF Connect, recvVars
<1> HIDE DEF f
<1>5. Writes(p, <<f>>)
  BY <1>2 DEF f
<1>6. Signals(Server)' = Signals(Server) \cup SignalsIn({f}) /\ net'[Client] = net[Client]
  BY <1>1, <1>3, <1>4, <1>5, SignalWritten
<1>7. SignalsIn({f}) = {f}
  BY <1>3 DEF SignalsIn, SignalTypes
<1>8. Signals(Client)' = Signals(Client)
  BY <1>4, <1>6 DEF Signals, OnWire, Wire
<1>9. \A q : Asking(q)' = Asking(q) /\ Refusals(q)' = Refusals(q)
  BY <1>4 DEF Asking, Refusals
<1>10. ~client_role[Client] /\ client_role'[Client] /\ client_role'[Server] = client_role[Server]
  BY <1>1 DEF Connect, TypeOK
<1>11. /\ Signals(Client) = {} /\ Signals(Server) = {}
       /\ Asking(Server) = {} /\ Refusals(Client) = {}
       /\ Beat = Stopped /\ Watch = Stopped /\ keep_alive_responded[Client]
  BY <1>10 DEF Up, Sided, Unaccepted
<1>12. Beat' = Stopped /\ Watch' = Stopped
  BY <1>4, <1>11 DEF Beat, Watch
<1>13. keep_alive'[Client] = ka
  BY <1>1, <1>2 DEF TypeOK
<1>14. Sided'
  BY <1>3, <1>6, <1>7, <1>8, <1>9, <1>10, <1>11, <1>13 DEF Up, Sided
<1>15. Unaccepted'
  BY <1>3, <1>4, <1>6, <1>7, <1>8, <1>9, <1>11, <1>12 DEF Unaccepted, Considered, Signalled
<1>16. Beating'
  BY <1>12 DEF Beating
<1> QED
  BY <1>4, <1>14, <1>15, <1>16 DEF Up

(* stream_mqtt_connack; a SUBACK and an UNSUBACK are quiet.                 *)
LEMMA AnswerUp ==
    ASSUME TypeOK, Up, NEW p \in Peers, Answer(p), alive[Other(p)]
    PROVE  Up'
<1>0. Other(p) \in Peers /\ Other(p) # p
  BY OtherPeer
<1>1. PICK x \in todo[p], code \in ReturnCodes :
           /\ todo' = [todo EXCEPT ![p] = @ \ {x}]
           /\ Writes(p, <<Frame(AnswerType(x.type), x.id, code)>>)
           /\ status' = IF x.type = "CONNECT" /\ code = 0
                        THEN [status EXCEPT ![p] = "READY"] ELSE status
  BY DEF Answer
<1> DEFINE f == Frame(AnswerType(x.type), x.id, code)
<1>2. x \in FrameType /\ x.type \in Requests /\ code \in Nat
  BY AppAssumption DEF TypeOK
<1>3. /\ AnswerType(x.type) \in {"CONNACK", "SUBACK", "UNSUBACK"}
      /\ AnswerType(x.type) = "CONNACK" <=> x.type = "CONNECT"
  BY <1>2 DEF AnswerType, Requests
<1>4. x.id \in PacketIds \cup {NoId}
  BY <1>2 DEF FrameType
<1>5. f \in FrameType /\ f.type = AnswerType(x.type)
  BY <1>2, <1>3, <1>4, FrameTyped DEF FrameTypes, Frame
<1> HIDE DEF f
<1>6. Writes(p, <<f>>)
  BY <1>1 DEF f
<1>7. UNCHANGED <<client_role, keep_alive, keep_alive_responded, keep_alive_timer, incoming, buffer>>
  BY DEF Answer
<1>8. Signals(Other(p))' = Signals(Other(p)) \cup SignalsIn({f}) /\ net'[p] = net[p]
  BY <1>5, <1>6, <1>7, SignalWritten
<1>9. Signals(p)' = Signals(p)
  BY <1>7, <1>8 DEF Signals, OnWire, Wire
<1>10. /\ \A q : Refusals(q)' = Refusals(q)
       /\ Asking(Other(p))' = Asking(Other(p))
       /\ Asking(p)' \subseteq Asking(p) /\ Asking(p) \subseteq Asking(p)' \cup AskingIn({x})
  <2>1. todo'[p] = todo[p] \ {x} /\ todo'[Other(p)] = todo[Other(p)]
    BY <1>0, <1>1 DEF TypeOK
  <2> QED
    BY <1>7, <2>1 DEF Asking, AskingIn, Refusals
<1>11. CASE x.type # "CONNECT"
  <2>1. SignalsIn({f}) = {} /\ AskingIn({x}) = {}
    BY <1>3, <1>5, <1>11 DEF SignalsIn, SignalTypes, AskingIn
  <2>2. UNCHANGED linkVars
    BY <1>1, <1>7, <1>11 DEF linkVars
  <2>3. Quiet
    BY <1>8, <1>9, <1>10, <2>1, <2>2, OtherPeer, OfClient DEF Quiet
  <2> QED
    BY <2>3, QuietUp
<1>12. CASE x.type = "CONNECT"
  <2>1. x \in Asking(p)
    BY <1>12 DEF Asking, AskingIn
  <2>2. p = Server /\ Other(p) = Client /\ Client \in Peers /\ Server \in Peers
    BY <2>1, OfClient DEF Up, Sided, Peers, Other
  <2>3. f.type = "CONNACK" /\ SignalsIn({f}) = {f}
    BY <1>3, <1>5, <1>12 DEF SignalsIn, SignalTypes
  <2>4. /\ Signals(Client)' = Signals(Client) \cup {f} /\ Signals(Server)' = Signals(Server)
        /\ Asking(Server)' \subseteq Asking(Server) /\ Asking(Client)' = Asking(Client)
        /\ Refusals(Client)' = Refusals(Client)
    BY <1>8, <1>9, <1>10, <2>2, <2>3
  <2>5. Considered /\ Connecting
    BY <2>1, <2>2 DEF Considered, Connecting
  <2>6. client_role[Client] /\ client_role'[Client]
    BY <1>7, <2>1, <2>2 DEF Up, Sided
  <2>7. Sided'
    BY <1>7, <2>3, <2>4, <2>6 DEF Up, Sided
  <2>8. Connecting'
    BY <2>3, <2>4 DEF Connecting, Considered, Signalled
  <2>9. Beat' = Beat /\ Watch' = Watch /\ Granted' = Granted
    BY <1>7 DEF Beat, Watch, Granted
  <2>10. Unaccepted'
    BY <1>7, <2>4, <2>5, <2>8, <2>9 DEF Up, Unaccepted, Signalled
  <2>11. Beating'
    BY <1>7, <2>4, <2>9 DEF Up, Beating, Signalled
  <2>12. \A q \in Peers : status'[q] # "CLOSING"
    BY <1>1 DEF Up, TypeOK
  <2> QED
    BY <2>7, <2>10, <2>11, <2>12 DEF Up
<1> QED
  BY <1>11, <1>12

(* The case of CONNECT: the timer of the server starts.                     *)
LEMMA ReceiveConnectUp ==
    ASSUME TypeOK, Up, NEW p \in Peers, HandleReceivedFrame(p), NEW f, f = Head(buffer[p]),
           ReceiveConnect(p, f), KeepAliveTimeout > 0
    PROVE  Up'
<1>1. /\ f \in FrameType /\ Signals(p) = Signals(p)' \cup SignalsIn({f})
      /\ buffer'[Other(p)] = buffer[Other(p)] /\ net'[p] = net[p] /\ UNCHANGED client_role
  BY SignalHandled
<1>2. f.type = "CONNECT" /\ Notify(p, <<f>>) /\ UNCHANGED <<status, keep_alive_responded, net>>
  BY DEF ReceiveConnect
<1>3. SignalsIn({f}) = {f} /\ AskingIn({f}) = {f} /\ RefusalsIn({f}) = {}
  BY <1>2 DEF SignalsIn, SignalTypes, AskingIn, RefusalsIn
<1>4. f \in Signals(p)
  BY <1>1, <1>3
<1>5. p = Server /\ Other(p) = Client /\ Client \in Peers /\ Server \in Peers /\ Client # Server
  BY <1>2, <1>4, OfClient, PeersAssumption DEF Up, Sided, Peers, Other
<1>6. f.arg = keep_alive[Client] /\ f.arg \in Nat
  BY <1>1, <1>2, <1>4, <1>5 DEF Up, Sided, FrameType
<1>7. Signals(Client)' = Signals(Client)
  BY <1>1, <1>2, <1>5 DEF Signals, OnWire, Wire
<1>8. /\ Asking(Server)' = Asking(Server) \cup {f} /\ Asking(Client)' = Asking(Client)
      /\ Refusals(Client)' = Refusals(Client)
  <2> DEFINE frames == <<f>>
  <2>1. frames \in Seq(FrameType) /\ ToSet(frames) = {f} /\ Notify(p, frames)
    BY <1>1, <1>2, SingleEntry
  <2> HIDE DEF frames
  <2>2. /\ Asking(p)' = Asking(p) \cup AskingIn(ToSet(frames))
        /\ Asking(Other(p))' = Asking(Other(p)) /\ Refusals(Other(p))' = Refusals(Other(p))
    BY <2>1, AskingNotified
  <2> QED
    BY <1>3, <1>5, <2>1, <2>2
<1>9. client_role[Client]
  BY <1>4, <1>5 DEF Up, Sided
<1>10. Considered' /\ Connecting'
  BY <1>8 DEF Considered, Connecting
<1>11. Connecting /\ Beat' = Beat /\ Granted' = Granted /\ keep_alive'[Client] = keep_alive[Client]
  <2>1. Connecting
    BY <1>2, <1>4, <1>5 DEF Connecting, Signalled
  <2>2. keep_alive'[Client] = keep_alive[Client] /\ keep_alive_timer'[Client] = keep_alive_timer[Client]
    BY <1>5 DEF ReceiveConnect, TypeOK
  <2> QED
    BY <2>1, <2>2 DEF Beat, Granted
<1>12. Signalled(Server, "PINGREQ")' <=> Signalled(Server, "PINGREQ")
  BY <1>1, <1>2, <1>3, <1>5 DEF Signalled
<1>13. Signalled(Client, "PINGRESP")' <=> Signalled(Client, "PINGRESP")
  BY <1>7 DEF Signalled
<1>14. Sided'
  BY <1>1, <1>2, <1>3, <1>5, <1>6, <1>7, <1>8, <1>9, <1>11 DEF Up, Sided
<1>15. CASE keep_alive[Client] = 0
  <2>1. UNCHANGED <<keep_alive, keep_alive_timer>>
    BY <1>6, <1>15 DEF ReceiveConnect
  <2>2. Watch' = Watch /\ Beat = Stopped /\ Watch = Stopped
    BY <1>15, <2>1 DEF Watch, Up, Unaccepted
  <2>3. Unaccepted'
    BY <1>2, <1>11, <1>12, <1>15, <2>2 DEF Up, Unaccepted
  <2>4. Beating'
    BY <1>11, <2>2 DEF Beating
  <2> QED
    BY <1>2, <1>14, <2>3, <2>4 DEF Up
<1>16. CASE keep_alive[Client] # 0
  <2>1. Watch' = Started(Granted) /\ keep_alive'[Server] = Granted
    <3>1. f.arg > 0 /\ Granted = WithMargin(f.arg)
      BY <1>6, <1>16 DEF Granted
    <3> DEFINE ka == WithMargin(f.arg)
    <3>2. /\ keep_alive' = [keep_alive EXCEPT ![p] = ka]
          /\ keep_alive_timer' = [keep_alive_timer EXCEPT ![p] = Started(ka)]
      BY <3>1 DEF ReceiveConnect
    <3> HIDE DEF ka
    <3>3. keep_alive'[Server] = ka /\ keep_alive_timer'[Server] = Started(ka)
      BY <1>5, <3>2 DEF TypeOK
    <3> QED
      BY <3>1, <3>3 DEF Watch, ka
  <2>2. Unaccepted'
    <3>1. keep_alive'[Client] # 0
      BY <1>11, <1>16
    <3>2. Beat = Stopped =>
            keep_alive_responded'[Client] /\ ~Signalled(Server, "PINGREQ")'
      BY <1>2, <1>12 DEF Up, Unaccepted
    <3> QED
      BY <1>10, <1>11, <2>1, <3>1, <3>2 DEF Unaccepted
  <2>3. Beating'
    <3> SUFFICES ASSUME Beat' # Stopped PROVE Beating'
      BY DEF Beating
    <3>1. Beat # Stopped /\ Beat.left <= keep_alive[Client] /\ Beat.left \in Nat
      BY <1>5, <1>11 DEF Up, Beating, Beat, TypeOK, TimerType
    <3>2. /\ Watch'.left = Granted /\ Granted > keep_alive[Client]
          /\ Granted \in Nat /\ keep_alive[Client] \in Nat
      <4>1. Granted = keep_alive[Client] + KeepAliveTimeout /\ keep_alive[Client] \in Nat
        BY <1>5 DEF Granted, WithMargin, TypeOK
      <4>2. Watch'.left = Granted
        BY <2>1 DEF Started
      <4> QED
        BY <4>1, <4>2, NumbersAssumption
    <3>3. Watch'.left > 0 /\ Watch'.left > Beat'.left
      BY <1>11, <3>1, <3>2
    <3> QED
      BY <1>2, <1>11, <1>12, <1>13, <2>1, <3>1, <3>3 DEF Up, Beating
  <2> QED
    BY <1>2, <1>14, <2>2, <2>3 DEF Up
<1> QED
  BY <1>15, <1>16

(* The case of CONNACK: the timer of the client starts.                     *)
LEMMA ReceiveConnackUp ==
    ASSUME TypeOK, Up, NEW p \in Peers, HandleReceivedFrame(p), NEW f, f = Head(buffer[p]),
           ReceiveConnack(p, f), KeepAliveTimeout > 0, Undisturbed'
    PROVE  Up'
<1>1. /\ f \in FrameType /\ Signals(p) = Signals(p)' \cup SignalsIn({f})
      /\ buffer'[Other(p)] = buffer[Other(p)] /\ net'[p] = net[p] /\ UNCHANGED client_role
  BY SignalHandled
<1>2. /\ f.type = "CONNACK" /\ Notify(p, <<f>>)
      /\ UNCHANGED <<keep_alive, keep_alive_responded, net>>
  BY DEF ReceiveConnack
<1>3. SignalsIn({f}) = {f} /\ AskingIn({f}) = {}
  BY <1>2 DEF SignalsIn, SignalTypes, AskingIn
<1>4. f \in Signals(p)
  BY <1>1, <1>3
<1>5. p = Client /\ Other(p) = Server /\ Client \in Peers /\ Server \in Peers /\ Client # Server
  BY <1>2, <1>4, OfClient, PeersAssumption DEF Up, Sided, Peers
<1>6. Signals(Server)' = Signals(Server)
  BY <1>1, <1>2, <1>5 DEF Signals, OnWire, Wire
<1>7. /\ Asking(Client)' = Asking(Client) /\ Asking(Server)' = Asking(Server)
      /\ Refusals(Client)' = Refusals(Client) \cup RefusalsIn({f})
  <2> DEFINE frames == <<f>>
  <2>1. frames \in Seq(FrameType) /\ ToSet(frames) = {f} /\ Notify(p, frames)
    BY <1>1, <1>2, SingleEntry
  <2> HIDE DEF frames
  <2>2. /\ Asking(Client)' = Asking(Client) \cup {} /\ Asking(Server)' = Asking(Server)
        /\ \/ Refusals(Client)' = Refusals(Client) \cup RefusalsIn({f})
           \/ Refusals(Client)' = Refusals(Client) /\ {f} \subseteq ToSet(delivered'[Client])
    BY <1>3, <1>5, <2>1, AskingNotified
  <2>3. f \in ToSet(delivered'[Client]) => RefusalsIn({f}) = {}
    BY <1>2 DEF Undisturbed, RefusalsIn
  <2> QED
    BY <2>2, <2>3
<1>8. client_role[Client] /\ Considered /\ Connecting
  BY <1>2, <1>4, <1>5 DEF Up, Sided, Considered, Connecting, Signalled
<1>9. Sided'
  <2>1. Asking(Client) = {} /\ ~client_role[Server] /\ Signals(Client)' \subseteq Signals(Client)
    BY <1>1, <1>5 DEF Up, Sided
  <2> QED
    BY <1>1, <1>2, <1>6, <1>7, <1>8, <2>1 DEF Up, Sided
<1>10. Granted' = Granted /\ Watch' = Watch
  BY <1>2, <1>5 DEF ReceiveConnack, TypeOK, Granted, Watch
<1>11. /\ Signalled(Server, "PINGREQ")' <=> Signalled(Server, "PINGREQ")
       /\ Signalled(Client, "PINGRESP")' <=> Signalled(Client, "PINGRESP")
  BY <1>1, <1>2, <1>3, <1>5, <1>6 DEF Signalled
<1>12. \A q \in Peers : status'[q] # "CLOSING"
  BY DEF Up, ReceiveConnack, TypeOK
<1>13. Considered' => Considered
  BY <1>8
<1>14. CASE f.arg = 0 /\ keep_alive[Client] > 0
  <2>1. Beat' = Started(keep_alive[Client]) /\ keep_alive[Client] \in Nat
    BY <1>5, <1>14 DEF ReceiveConnack, TypeOK, Beat
  <2>2. Watch = Started(Granted) /\ keep_alive[Server] = Granted
    BY <1>8, <1>14 DEF Up, Unaccepted
  <2>3. Beat' # Stopped /\ Beat'.interval = keep_alive[Client] /\ Beat'.left = keep_alive[Client]
    BY <1>14, <2>1 DEF Started, Stopped
  <2>4. Watch'.left = Granted /\ Granted > keep_alive[Client]
    BY <1>10, <1>14, <2>1, <2>2, NumbersAssumption DEF Started, Granted, WithMargin
  <2>5. Unaccepted'
    BY <1>2, <1>10, <1>14, <2>2, <2>3 DEF Unaccepted
  <2>6. keep_alive_responded[Client] \/ Signalled(Server, "PINGREQ") \/ Signalled(Client, "PINGRESP")
    BY DEF Up, Unaccepted, Beating
  <2>7. Beating'
    <3>1. Watch'.left > Beat'.left /\ Watch'.left > 0
      BY <1>14, <2>1, <2>3, <2>4, NumbersAssumption DEF Granted, WithMargin
    <3> QED
      BY <1>2, <1>10, <1>11, <1>14, <2>1, <2>2, <2>3, <2>6, <3>1 DEF Beating
  <2> QED
    BY <1>9, <1>12, <2>5, <2>7 DEF Up
<1>15. CASE ~(f.arg = 0 /\ keep_alive[Client] > 0)
  <2>1. UNCHANGED keep_alive_timer
    BY <1>5, <1>15 DEF ReceiveConnack
  <2>2. Beat' = Beat
    BY <2>1 DEF Beat
  <2>3. CASE keep_alive[Client] = 0
    <3>1. Beat = Stopped /\ Watch = Stopped
      BY <2>3 DEF Up, Unaccepted
    <3>2. Unaccepted'
      BY <1>2, <1>10, <1>11, <2>2, <2>3, <3>1 DEF Up, Unaccepted
    <3>3. Beating'
      BY <2>2, <3>1 DEF Beating
    <3> QED
      BY <1>9, <1>12, <3>2, <3>3 DEF Up
  <2>4. CASE keep_alive[Client] # 0
    <3>1. f.arg # 0
      <4>1. keep_alive[Client] \in Nat
        BY <1>5 DEF TypeOK
      <4>2. keep_alive[Client] > 0
        BY <2>4, <4>1
      <4> QED
        BY <1>15, <4>2
    <3>2. Connecting'
      BY <1>2, <1>7, <3>1 DEF Connecting, RefusalsIn
    <3>3. Unaccepted'
      BY <1>2, <1>8, <1>10, <1>11, <2>2, <3>2 DEF Up, Unaccepted
    <3>4. Beating'
      BY <1>2, <1>10, <1>11, <2>2 DEF Up, Beating
    <3> QED
      BY <1>9, <1>12, <3>3, <3>4 DEF Up
  <2> QED
    BY <2>3, <2>4
<1> QED
  BY <1>14, <1>15

(* The cases of PINGREQ and PINGRESP.                                       *)
LEMMA ReceivePingUp ==
    ASSUME TypeOK, Up, NEW p \in Peers, HandleReceivedFrame(p), NEW f, f = Head(buffer[p]),
           ReceivePing(p, f), KeepAliveTimeout > 0, alive[Other(p)]
    PROVE  Up'
<1>1. /\ f \in FrameType /\ Signals(p) = Signals(p)' \cup SignalsIn({f})
      /\ buffer'[Other(p)] = buffer[Other(p)] /\ net'[p] = net[p] /\ UNCHANGED client_role
  BY SignalHandled
<1>2. f.type \in {"PINGREQ", "PINGRESP"} /\ UNCHANGED <<status, keep_alive, incoming, todo>>
  BY DEF ReceivePing, recvVars
<1>3. SignalsIn({f}) = {f} /\ f \in Signals(p)
  BY <1>1, <1>2 DEF SignalsIn, SignalTypes
<1>4. \A q : Asking(q)' = Asking(q) /\ Refusals(q)' = Refusals(q)
  BY <1>2 DEF Asking, Refusals
<1>5. Client \in Peers /\ Server \in Peers /\ Client # Server /\ Granted' = Granted
  BY <1>2, OfClient, PeersAssumption DEF Granted
<1>6. client_role[Client]
  BY <1>3, OtherPeer DEF Up, Sided, Peers
<1>7. CASE f.type = "PINGREQ"
  <2>1. p = Server /\ Other(p) = Client
    BY <1>3, <1>7, OfClient DEF Up, Sided, Peers, Other
  <2> DEFINE x == Frame("PINGRESP", NoId, 0)
  <2>2. /\ Writes(p, <<x>>) /\ UNCHANGED keep_alive_responded
        /\ keep_alive_timer' = [keep_alive_timer EXCEPT ![p] = Started(keep_alive[p])]
    BY <1>7 DEF ReceivePing
  <2>3. x \in FrameType /\ x.type = "PINGRESP"
    BY FrameTyped DEF FrameTypes, Frame
  <2> HIDE DEF x
  <2>4. Signals(Client)' = Signals(Client) \cup SignalsIn({x})
    BY <1>1, <2>1, <2>2, <2>3, SignalWritten
  <2>5. SignalsIn({x}) = {x}
    BY <2>3 DEF SignalsIn, SignalTypes
  <2>6. Signalled(Server, "PINGREQ") /\ Signalled(Client, "PINGRESP")'
    BY <1>3, <1>7, <2>1, <2>3, <2>4, <2>5 DEF Signalled
  <2>7. Beat # Stopped
    BY <2>6 DEF Up, Unaccepted
  <2>8. Beat' = Beat /\ Watch' = Started(Granted)
    BY <1>5, <2>1, <2>2, <2>7 DEF Beat, Watch, TypeOK, Up, Beating
  <2>9. Sided'
    BY <1>1, <1>2, <1>4, <1>6, <2>1, <2>3, <2>4, <2>5 DEF Up, Sided
  <2>10. Considered' => Considered
    BY <1>4, <2>3, <2>4, <2>5 DEF Considered, Signalled
  <2>11. keep_alive[Client] > 0
    BY <2>7 DEF Up, Beating
  <2>12. Unaccepted'
    BY <1>2, <1>5, <2>7, <2>8, <2>11 DEF Up, Unaccepted, Beating
  <2>13. Watch'.left > Beat'.left /\ Watch'.left > 0
    <3>1. Watch'.left = Granted /\ keep_alive[Client] \in Nat /\ Beat.left \in Nat
      BY <1>5, <2>8 DEF Started, TypeOK, Beat, TimerType
    <3>2. Granted = keep_alive[Client] + KeepAliveTimeout
      BY DEF Granted, WithMargin
    <3>3. Beat.left <= keep_alive[Client]
      BY <2>7 DEF Up, Beating
    <3>4. Granted > Beat.left /\ Granted > 0
      BY <3>1, <3>2, <3>3, NumbersAssumption
    <3> QED
      BY <2>8, <3>1, <3>4
  <2>14. Beating'
    BY <1>2, <1>5, <2>2, <2>6, <2>7, <2>8, <2>13 DEF Up, Beating
  <2> QED
    BY <1>2, <2>9, <2>12, <2>14 DEF Up
<1>8. CASE f.type = "PINGRESP"
  <2>1. p = Client /\ Other(p) = Server
    BY <1>3, <1>8, OfClient DEF Up, Sided, Peers
  <2>2. /\ UNCHANGED <<keep_alive_timer, net>>
        /\ keep_alive_responded' = [keep_alive_responded EXCEPT ![p] = TRUE]
    BY <1>8 DEF ReceivePing
  <2>3. Signals(Server)' = Signals(Server)
    BY <1>1, <2>1, <2>2 DEF Signals, OnWire, Wire
  <2>4. keep_alive_responded'[Client] /\ Beat' = Beat /\ Watch' = Watch
    BY <2>1, <2>2 DEF TypeOK, Beat, Watch
  <2>5. /\ Signalled(Server, "PINGREQ")' <=> Signalled(Server, "PINGREQ")
        /\ Signalled(Server, "CONNECT")' <=> Signalled(Server, "CONNECT")
        /\ Signalled(Client, "CONNACK")' <=> Signalled(Client, "CONNACK")
    BY <1>1, <1>3, <1>8, <2>1, <2>3 DEF Signalled
  <2>6. Considered' = Considered /\ Connecting' = Connecting
    BY <1>4, <2>5 DEF Considered, Connecting
  <2>7. Sided'
    BY <1>1, <1>2, <1>4, <1>6, <2>1, <2>3 DEF Up, Sided
  <2>8. Unaccepted'
    BY <1>2, <1>5, <2>4, <2>5, <2>6 DEF Up, Unaccepted
  <2>9. Beating'
    BY <1>2, <1>5, <2>4, <2>5 DEF Up, Beating
  <2> QED
    BY <1>2, <2>7, <2>8, <2>9 DEF Up
<1> QED
  BY <1>2, <1>7, <1>8

(* stream_mqtt_do_time writes a ping if one is due; what it writes of       *)
(* outgoing is no frame of the keep-alive.                                  *)
LEMMA TimeSignals ==
    ASSUME TypeOK, QueuesRequests, NEW p \in Peers, DoTime(p), alive[Other(p)]
    PROVE  /\ Signals(Other(p))' =
                Signals(Other(p)) \cup (IF PingDue(p) THEN {Frame("PINGREQ", NoId, 0)} ELSE {})
           /\ Signals(p)' = Signals(p)
           /\ \A q : Asking(q)' = Asking(q) /\ Refusals(q)' = Refusals(q)
<1> DEFINE ping == Frame("PINGREQ", NoId, 0)
           first == IF PingDue(p) THEN <<ping>> ELSE <<>>
           q == outgoing[p]
<1>1. ping \in FrameType /\ ping.type = "PINGREQ"
  BY FrameTyped DEF FrameTypes, Frame
<1>2. UNCHANGED <<incoming, todo, buffer>>
  BY DEF DoTime, recvVars
<1>3. q \in Seq(ItemType) /\ Outgoing(p) = {FrameOf(item) : item \in ToSet(q)}
  BY DEF TypeOK, Outgoing
<1>4. \A x \in ToSet(q) : FrameOf(x) \in FrameType /\ FrameOf(x).type \notin SignalTypes
  <2>1. \A x \in ToSet(q) : x \in ItemType /\ FrameOf(x) \in Outgoing(p)
    BY <1>3, QueueTyped
  <2> QED
    BY <2>1, FrameTyped DEF QueuesRequests, SignalTypes
<1> HIDE DEF q, ping
<1>5. ASSUME NEW x \in ToSet(q), TimeWrites(p, <<FrameOf(x)>>)
      PROVE  \E frames \in Seq(FrameType) : TimeWrites(p, frames) /\ SignalsIn(ToSet(frames)) = {}
  <2> DEFINE frames == <<FrameOf(x)>>
  <2>1. frames \in Seq(FrameType) /\ ToSet(frames) = {FrameOf(x)} /\ TimeWrites(p, frames)
    BY <1>4, <1>5, SingleEntry
  <2> HIDE DEF frames
  <2>2. SignalsIn(ToSet(frames)) = {}
    BY <1>4, <2>1 DEF SignalsIn
  <2> QED
    BY <2>1, <2>2
<1>6. ASSUME TimeWrites(p, <<>>)
      PROVE  \E frames \in Seq(FrameType) : TimeWrites(p, frames) /\ SignalsIn(ToSet(frames)) = {}
  <2> DEFINE frames == <<>>
  <2>1. frames \in Seq(FrameType) /\ ToSet(frames) = {} /\ TimeWrites(p, frames)
    BY <1>6, NoEntry
  <2> HIDE DEF frames
  <2>2. SignalsIn(ToSet(frames)) = {}
    BY <2>1 DEF SignalsIn
  <2> QED
    BY <2>1, <2>2
<1>7. PICK frames \in Seq(FrameType) : TimeWrites(p, frames) /\ SignalsIn(ToSet(frames)) = {}
  <2>1. CASE ResendHead(p) \/ WriteNext(p)
    <3>1. TimeWrites(p, <<FrameOf(Head(q))>>) /\ q # <<>>
      BY <2>1 DEF ResendHead, WriteNext, ResendDue, NextDue, q
    <3>2. Head(q) \in ToSet(q)
      BY <1>3, <3>1, HeadEntries
    <3> QED
      BY <1>5, <3>1, <3>2
  <2>2. CASE AbandonHead(p)
    <3> DEFINE rest == Tail(q)
    <3>1. q # <<>> /\ IF rest = <<>> THEN TimeWrites(p, <<>>)
                                     ELSE TimeWrites(p, <<FrameOf(Head(rest))>>)
      BY <2>2 DEF AbandonHead, ResendDue, q
    <3>2. rest \in Seq(ItemType) /\ ToSet(q) = {Head(q)} \cup ToSet(rest)
      BY <1>3, <3>1, HeadEntries
    <3> HIDE DEF rest
    <3>3. rest # <<>> => Head(rest) \in ToSet(q)
      BY <3>2, HeadEntries
    <3> QED
      BY <1>5, <1>6, <3>1, <3>3
  <2>3. CASE NothingToWrite(p)
    BY <1>6, <2>3 DEF NothingToWrite
  <2> QED
    BY <2>1, <2>2, <2>3 DEF DoTime
<1>8. first \in Seq(FrameType) /\ SignalsIn(ToSet(first)) = IF PingDue(p) THEN {ping} ELSE {}
  <2>1. ToSet(<<ping>>) = {ping} /\ ToSet(<<>>) = {}
    BY SingleEntry, NoEntry
  <2>2. SignalsIn({ping}) = {ping} /\ SignalsIn({}) = {}
    BY <1>1 DEF SignalsIn, SignalTypes
  <2>3. CASE PingDue(p)
    <3>1. first = <<ping>>
      BY <2>3
    <3> HIDE DEF first
    <3>2. first \in Seq(FrameType)
      BY <1>1, <3>1
    <3> QED
      BY <2>1, <2>2, <2>3, <3>1, <3>2
  <2>4. CASE ~PingDue(p)
    <3>1. first = <<>>
      BY <2>4
    <3> HIDE DEF first
    <3>2. first \in Seq(FrameType)
      BY <3>1
    <3> QED
      BY <2>1, <2>2, <2>4, <3>1, <3>2
  <2> QED
    BY <2>3, <2>4
<1>9. Writes(p, first \o frames)
  BY <1>7 DEF TimeWrites, ping
<1> HIDE DEF first
<1> DEFINE more == first \o frames
<1>10. more \in Seq(FrameType) /\ ToSet(more) = ToSet(first) \cup ToSet(frames) /\ Writes(p, more)
  BY <1>8, <1>9, ConcatEntries
<1> HIDE DEF more
<1>11. SignalsIn(ToSet(more)) = IF PingDue(p) THEN {ping} ELSE {}
  <2>1. SignalsIn(ToSet(more)) = SignalsIn(ToSet(first)) \cup SignalsIn(ToSet(frames))
    BY <1>10 DEF SignalsIn
  <2> QED
    BY <1>7, <1>8, <2>1
<1>12. Signals(Other(p))' = Signals(Other(p)) \cup SignalsIn(ToSet(more)) /\ net'[p] = net[p]
  BY <1>2, <1>10, SignalsWritten, WireWritten
<1>13. Signals(p)' = Signals(p)
  BY <1>2, <1>12 DEF Signals, OnWire, Wire
<1>14. \A r : Asking(r)' = Asking(r) /\ Refusals(r)' = Refusals(r)
  BY <1>2 DEF Asking, Refusals
<1> QED
  BY <1>11, <1>12, <1>13, <1>14 DEF ping

(* stream_mqtt_do_time: the server has heard the client in time, and the    *)
(* client has been answered before its next ping.                           *)
LEMMA TimeUp ==
    ASSUME TypeOK, QueuesRequests, Up, NEW p \in Peers, DoTime(p), alive[Other(p)],
           KeepAliveTimeout > 0
    PROVE  Up'
<1>1. /\ Signals(Other(p))' =
           Signals(Other(p)) \cup (IF PingDue(p) THEN {Frame("PINGREQ", NoId, 0)} ELSE {})
      /\ Signals(p)' = Signals(p)
      /\ \A q : Asking(q)' = Asking(q) /\ Refusals(q)' = Refusals(q)
  BY TimeSignals
<1>2. KeepAliveTime(p) /\ UNCHANGED <<client_role, keep_alive>>
  BY DEF DoTime
<1>3. Client \in Peers /\ Server \in Peers /\ Client # Server
  BY OfClient, PeersAssumption
<1>4. CASE ~Expired(keep_alive_timer[p])
  <2>1. ~PingDue(p)
    BY <1>4 DEF PingDue
  <2>2. UNCHANGED linkVars
    BY <1>2, <1>4, <2>1 DEF KeepAliveTime, linkVars
  <2>3. Quiet
    BY <1>1, <2>1, <2>2, <1>3, OtherPeer DEF Quiet
  <2> QED
    BY <2>3, QuietUp
<1>5. CASE Expired(keep_alive_timer[p]) /\ p = Server
  <2>1. Watch.left = 0 /\ Watch # Stopped
    BY <1>5 DEF Expired, Running, Watch, Stopped
  <2>2. Beat = Stopped
    BY <2>1 DEF Up, Beating
  <2>3. Watch = Started(Granted)
    BY <2>1, <2>2 DEF Up, Unaccepted
  <2>4. keep_alive[Client] \in Nat /\ Granted = keep_alive[Client] + KeepAliveTimeout
    BY <1>3 DEF TypeOK, Granted, WithMargin
  <2>5. Watch.left = Granted
    BY <2>3 DEF Started
  <2>6. FALSE
    BY <2>1, <2>4, <2>5, NumbersAssumption
  <2> QED
    BY <2>6
<1>6. CASE Expired(keep_alive_timer[p]) /\ p = Client
  <2>1. Beat.left = 0 /\ Beat # Stopped /\ Beat \in TimerType
    BY <1>3, <1>6 DEF Expired, Running, Beat, Stopped, TypeOK
  <2>2. /\ keep_alive_responded[Client] /\ keep_alive[Client] > 0 /\ keep_alive[Server] = Granted
        /\ Beat.interval = keep_alive[Client] /\ Watch.left > 0
    BY <2>1 DEF Up, Beating
  <2>3. client_role[Client]
    BY <2>1 DEF Up, Sided
  <2>4. PingDue(p)
    BY <1>6, <2>2, <2>3 DEF PingDue
  <2>5. /\ keep_alive_responded' = [keep_alive_responded EXCEPT ![p] = FALSE]
        /\ keep_alive_timer' = [keep_alive_timer EXCEPT ![p] = Restarted(@)]
        /\ UNCHANGED status
    BY <1>2, <2>4 DEF KeepAliveTime
  <2>6. Beat' = Restarted(Beat) /\ Watch' = Watch /\ Granted' = Granted
    BY <1>2, <1>3, <1>6, <2>5 DEF Beat, Watch, Granted, TypeOK
  <2>7. Beat'.interval = keep_alive[Client] /\ Beat'.left = keep_alive[Client]
    BY <2>1, <2>2, <2>6 DEF Restarted, TimerType
  <2>8. Beat' # Stopped /\ keep_alive[Client] \in Nat
    <3>1. keep_alive[Client] \in Nat
      BY <1>3 DEF TypeOK
    <3>2. Stopped.interval = 0 /\ Beat'.interval # 0
      BY <2>2, <2>7, <3>1 DEF Stopped
    <3> HIDE DEF Beat
    <3> QED
      BY <3>1, <3>2
  <2> DEFINE ping == Frame("PINGREQ", NoId, 0)
  <2>9. ping.type = "PINGREQ"
    BY DEF Frame
  <2>10. Signals(Server)' = Signals(Server) \cup {ping} /\ Signals(Client)' = Signals(Client)
    BY <1>1, <1>6, <2>4, OfClient
  <2> HIDE DEF ping
  <2>11. Signalled(Server, "PINGREQ")'
    BY <2>9, <2>10 DEF Signalled
  <2>12. Considered' = Considered /\ (Connecting' => Connecting)
    BY <1>1, <2>9, <2>10 DEF Considered, Connecting, Signalled
  <2>13. Sided'
    BY <1>1, <1>2, <2>3, <2>9, <2>10 DEF Up, Sided
  <2>14. Unaccepted'
    BY <1>2, <2>2, <2>6, <2>8, <2>12 DEF Up, Unaccepted
  <2>15. Beating'
    BY <1>2, <2>2, <2>6, <2>7, <2>8, <2>11 DEF Beating
  <2> QED
    BY <2>5, <2>13, <2>14, <2>15 DEF Up
<1> QED
  BY <1>4, <1>5, <1>6 DEF Peers

(* A unit of time passes when nothing is on its way: the client has been    *)
(* answered, and the timer of the server has more to go than its own.       *)
LEMMA TickUp ==
    ASSUME TypeOK, Up, Tick, Undisturbed
    PROVE  Up'
<1>1. Client \in Peers /\ Server \in Peers /\ Client # Server
  BY OfClient, PeersAssumption
<1>2. \A p \in Peers : ~Owed(p)
  BY DEF Tick, Undisturbed
<1>3. \A p \in Peers : /\ net[p] = <<>> /\ buffer[p] = <<>> /\ incoming[p] = <<>> /\ todo[p] = {}
                       /\ ~Expired(keep_alive_timer[p])
  BY <1>2 DEF Owed, TimeOwed, Up
<1>4. \A p \in Peers : Signals(p) = {} /\ Asking(p) = {} /\ Refusals(p) = {}
  <2> SUFFICES ASSUME NEW p \in Peers
               PROVE  Signals(p) = {} /\ Asking(p) = {} /\ Refusals(p) = {}
    OBVIOUS
  <2>1. Wire(p) = <<>>
    BY <1>3 DEF Wire
  <2>2. OnWire(p) = {} /\ ToSet(incoming[p]) = {}
    BY <1>3, <2>1, NoEntry DEF OnWire
  <2> QED
    BY <1>3, <2>2 DEF Signals, SignalsIn, Asking, AskingIn, Refusals, RefusalsIn
<1>5. /\ UNCHANGED <<status, client_role, keep_alive, keep_alive_responded, net, buffer,
                     incoming, todo>>
      /\ keep_alive_timer' = [p \in Peers |-> Ticked(keep_alive_timer[p])]
  BY DEF Tick, recvVars
<1>6. \A p : Signals(p)' = Signals(p) /\ Asking(p)' = Asking(p) /\ Refusals(p)' = Refusals(p)
  BY <1>5 DEF Signals, OnWire, Wire, Asking, Refusals
<1>7. /\ Beat' = Ticked(Beat) /\ Watch' = Ticked(Watch) /\ Granted' = Granted
      /\ Beat \in TimerType /\ Watch \in TimerType
  BY <1>1, <1>5 DEF Beat, Watch, Granted, TypeOK
<1>8. ~Connecting /\ ~Connecting' /\ ~Considered'
  BY <1>1, <1>4, <1>6 DEF Connecting, Considered, Signalled
<1>9. \A p \in Peers : ~Signalled(p, "PINGREQ") /\ ~Signalled(p, "PINGRESP")
  BY <1>4 DEF Signalled
<1>10. Ticked(Stopped) = Stopped
  BY DEF Ticked, Stopped
<1>11. CASE Beat = Stopped
  <2>1. Watch = Stopped
    BY <1>8, <1>11 DEF Up, Unaccepted
  <2>2. Beat' = Stopped /\ Watch' = Stopped
    BY <1>7, <1>10, <1>11, <2>1
  <2>3. Sided'
    BY <1>1, <1>4, <1>5, <1>6, <2>2 DEF Up, Sided
  <2>4. Unaccepted'
    <3>1. keep_alive_responded'[Client] /\ ~Signalled(Server, "PINGREQ")'
      BY <1>1, <1>4, <1>5, <1>6, <1>11 DEF Up, Unaccepted, Signalled
    <3> QED
      BY <1>8, <2>2, <3>1 DEF Unaccepted
  <2>5. Beating'
    BY <2>2 DEF Beating
  <2> QED
    BY <1>5, <2>3, <2>4, <2>5 DEF Up
<1>12. CASE Beat # Stopped
  <2>1. /\ keep_alive[Client] > 0 /\ keep_alive[Server] = Granted
        /\ Beat.interval = keep_alive[Client] /\ Beat.left <= keep_alive[Client]
        /\ Watch.left > Beat.left /\ keep_alive_responded[Client]
    BY <1>1, <1>9, <1>12 DEF Up, Beating
  <2>2. Beat.left # 0
    BY <1>1, <1>3, <2>1 DEF Expired, Running, Beat, TypeOK
  <2>3. /\ Beat'.interval = Beat.interval /\ Beat'.left = Beat.left - 1
        /\ Watch'.left = Watch.left - 1
    BY <1>7, <2>1, <2>2 DEF Ticked, TimerType
  <2>4. Beat.left \in Nat /\ Watch.left \in Nat /\ keep_alive[Client] \in Nat
    BY <1>1, <1>7 DEF TimerType, TypeOK
  <2>5. Beat'.left <= keep_alive[Client] /\ Watch'.left > Beat'.left /\ Watch'.left > 0
    BY <2>1, <2>2, <2>3, <2>4
  <2>6. Beat' # Stopped
    BY <2>1, <2>3 DEF Stopped
  <2>7. client_role[Client]
    BY <1>12 DEF Up, Sided
  <2>8. Sided'
    BY <1>1, <1>4, <1>5, <1>6, <2>7 DEF Up, Sided
  <2>9. Unaccepted'
    BY <1>5, <1>8, <2>1, <2>4, <2>6 DEF Unaccepted
  <2>10. Beating'
    BY <1>5, <1>7, <2>1, <2>3, <2>5 DEF Beating
  <2> QED
    BY <1>5, <2>8, <2>9, <2>10 DEF Up
<1> QED
  BY <1>11, <1>12

(* What disturbs a connection does not go away.                             *)
LEMMA UndisturbedBefore ==
    ASSUME TypeOK, [Next]_vars, Undisturbed'
    PROVE  Undisturbed /\ UNCHANGED <<alive, losses>>
<1>1. (\E p \in Peers : Lose(p) \/ Crash(p)) \/ UNCHANGED <<alive, losses>>
  BY DEF Next, vars, Tick, Connect, Answer, Publish, Request, Disconnect, ByteCall, Read,
         HandleReceivedFrame, TakeFrame, DoTime, envVars
<1>2. UNCHANGED <<alive, losses>>
  <2>1. ASSUME NEW p \in Peers, Lose(p) PROVE FALSE
    <3>1. losses' = losses + 1 /\ losses \in Nat /\ losses' = 0
      BY <2>1, NumbersAssumption DEF Lose, TypeOK, Undisturbed
    <3> QED
      BY <3>1
  <2>2. ASSUME NEW p \in Peers, Crash(p) PROVE FALSE
    <3>1. alive'[p] = FALSE /\ alive'[p] = TRUE
      BY <2>2 DEF Crash, TypeOK, Undisturbed
    <3> QED
      BY <3>1
  <2> QED
    BY <1>1, <2>1, <2>2
<1>3. ToSet(delivered[Client]) \subseteq ToSet(delivered'[Client])
  <2>1. delivered \in [Peers -> Seq(FrameType)] /\ Client \in Peers
    BY OfClient DEF TypeOK
  <2>2. CASE UNCHANGED delivered
    BY <2>2
  <2>3. ASSUME NEW p \in Peers, NEW frames \in Seq(FrameType), Hand(p, frames)
        PROVE  ToSet(delivered[Client]) \subseteq ToSet(delivered'[Client])
    <3>1. delivered' = [delivered EXCEPT ![p] = @ \o frames]
      BY <2>3 DEF Hand
    <3>2. delivered'[Client] = delivered[Client] \/ delivered'[Client] = delivered[Client] \o frames
      BY <2>1, <3>1
    <3>3. ToSet(delivered[Client] \o frames) = ToSet(delivered[Client]) \cup ToSet(frames)
      BY <2>1, ConcatEntries
    <3> QED
      BY <3>2, <3>3
  <2>4. ASSUME NEW p \in Peers, HandleReceivedFrame(p)
        PROVE  ToSet(delivered[Client]) \subseteq ToSet(delivered'[Client])
    <3> DEFINE f == Head(buffer[p])
               b == inbound[p]
               waiting == {k \in DOMAIN b : b[k].id = f.id}
    <3>1. f \in FrameType /\ b \in Seq(FrameType)
      BY <2>4, SignalHandled DEF TypeOK
    <3>2. \/ ReceiveConnect(p, f) \/ ReceiveConnack(p, f) \/ ReceiveForApplication(p, f)
          \/ ReceivePublish(p, f) \/ ReceiveAck(p, f) \/ ReceivePubrel(p, f)
          \/ ReceivePing(p, f)
      BY <2>4 DEF HandleReceivedFrame
    <3> HIDE DEF f
    <3>3. \/ Notify(p, <<f>>) \/ Notify(p, Only(b, waiting)) \/ UNCHANGED delivered
      BY <3>2 DEF ReceiveConnect, ReceiveConnack, ReceiveForApplication, ReceivePublish,
                  ReceiveAck, ReceivePubrel, ReceivePing, recvVars
    <3>4. <<f>> \in Seq(FrameType)
      BY <3>1
    <3> HIDE DEF b, waiting
    <3>5. Only(b, waiting) \in Seq(FrameType)
      BY <3>1, OnlyOrder
    <3>6. UNCHANGED delivered \/ \E frames \in Seq(FrameType) : Hand(p, frames)
      BY <3>3, <3>4, <3>5 DEF Notify
    <3> QED
      BY <2>2, <2>3, <3>6
  <2>5. ASSUME NEW p \in Peers, TakeFrame(p)
        PROVE  ToSet(delivered[Client]) \subseteq ToSet(delivered'[Client])
    <3>1. incoming[p] \in Seq(FrameType) /\ incoming[p] # <<>> /\ Hand(p, <<Head(incoming[p])>>)
      BY <2>5 DEF TakeFrame, TypeOK
    <3>2. <<Head(incoming[p])>> \in Seq(FrameType)
      BY <3>1
    <3> QED
      BY <2>3, <3>1, <3>2
  <2> QED
    BY <2>2, <2>4, <2>5
    DEF Next, vars, Tick, Connect, Answer, Publish, Request, Disconnect, ByteCall, Read,
        DoTime, Lose, Crash, recvVars
<1> QED
  BY <1>2, <1>3 DEF Undisturbed

(* Every step.                                                              *)
LEMMA UpStep ==
    ASSUME TypeOK, AllSafe, UpInv, [Next]_vars, Closers = {}, KeepAliveTimeout > 0
    PROVE  UpInv'
<1> SUFFICES ASSUME Undisturbed' PROVE Up'
  BY DEF UpInv
<1>1. Undisturbed /\ Up /\ UNCHANGED <<alive, losses>>
  BY UndisturbedBefore DEF UpInv
<1>2. \A p \in Peers : alive[Other(p)]
  BY <1>1, OtherPeer DEF Undisturbed
<1>3. QueuesRequests
  BY DEF AllSafe
<1>4. CASE UNCHANGED vars
  <2>1. Quiet
    BY <1>4, OfClient DEF vars, linkVars, recvVars, Quiet, Signals, OnWire, Wire, Asking, Refusals
  <2> QED
    BY <1>1, <2>1, QuietUp
<1>5. CASE Tick
  BY <1>1, <1>5, TickUp
<1>6. ASSUME NEW p \in Peers, Connect(p) \/ Answer(p) \/ DoTime(p)
      PROVE  Up'
  BY <1>1, <1>2, <1>3, <1>6, ConnectUp, AnswerUp, TimeUp
<1>7. ASSUME NEW p \in Peers, Publish(p) \/ Request(p) \/ Read(p) \/ TakeFrame(p)
      PROVE  Up'
  BY <1>1, <1>2, <1>7, CallQuiet, TakeFrameQuiet, QuietUp
<1>8. ASSUME NEW p \in Peers, Disconnect(p) \/ ByteCall(p) \/ Lose(p) \/ Crash(p)
      PROVE  FALSE
  <2>1. ~Disconnect(p) /\ ~ByteCall(p)
    BY DEF Disconnect, ByteCall
  <2>2. CASE Lose(p)
    <3>1. losses' = losses + 1 /\ losses = 0 /\ losses' = losses
      BY <1>1, <2>2 DEF Lose, Undisturbed
    <3> QED
      BY <3>1
  <2>3. CASE Crash(p)
    <3>1. alive'[p] = FALSE /\ alive'[p] = TRUE
      BY <2>3 DEF Crash, TypeOK, Undisturbed
    <3> QED
      BY <3>1
  <2> QED
    BY <1>8, <2>1, <2>2, <2>3
<1>9. ASSUME NEW p \in Peers, HandleReceivedFrame(p)
      PROVE  Up'
  <2> DEFINE f == Head(buffer[p])
  <2>1. \/ ReceiveConnect(p, f) \/ ReceiveConnack(p, f) \/ ReceiveForApplication(p, f)
        \/ ReceivePublish(p, f) \/ ReceiveAck(p, f) \/ ReceivePubrel(p, f)
        \/ ReceivePing(p, f)
    BY <1>9 DEF HandleReceivedFrame
  <2>2. CASE f.type \notin SignalTypes
    BY <1>1, <1>2, <1>9, <2>2, HandlingQuiet, QuietUp
  <2>3. CASE f.type \in SignalTypes
    <3> HIDE DEF f
    <3>1. ReceiveConnect(p, f) \/ ReceiveConnack(p, f) \/ ReceivePing(p, f)
      BY <2>1, <2>3
      DEF SignalTypes, ReceiveForApplication, ReceivePublish, ReceiveAck, ReceivePubrel
    <3>2. f = Head(buffer[p])
      BY DEF f
    <3> QED
      BY <1>1, <1>2, <1>9, <3>1, <3>2, ReceiveConnectUp, ReceiveConnackUp, ReceivePingUp
  <2> QED
    BY <2>2, <2>3
<1> QED
  BY <1>4, <1>5, <1>6, <1>7, <1>8, <1>9 DEF Next

(* Streams that stream_mqtt_open returns are not connected.                 *)
LEMMA UpInit == Init => UpInv
<1> SUFFICES ASSUME Init PROVE Up
  BY DEF UpInv
<1>1. Client \in Peers /\ Server \in Peers
  BY OfClient
<1>2. \A p \in Peers : Signals(p) = {} /\ Asking(p) = {} /\ Refusals(p) = {}
  <2> SUFFICES ASSUME NEW p \in Peers
               PROVE  Signals(p) = {} /\ Asking(p) = {} /\ Refusals(p) = {}
    OBVIOUS
  <2>1. OnWire(p) = {} /\ todo[p] = {} /\ incoming[p] = <<>>
    BY InitEmpty DEF Init
  <2>2. ToSet(incoming[p]) = {}
    BY <2>1, NoEntry
  <2> QED
    BY <2>1, <2>2 DEF Signals, SignalsIn, Asking, AskingIn, Refusals, RefusalsIn
<1>3. \A p \in Peers : /\ status[p] = "INIT" /\ client_role[p] = FALSE
                       /\ keep_alive_timer[p] = Stopped /\ keep_alive_responded[p] = TRUE
  BY DEF Init
<1>4. Sided
  BY <1>1, <1>2, <1>3 DEF Sided, Beat, Watch
<1>5. Unaccepted
  BY <1>1, <1>2, <1>3 DEF Unaccepted, Beat, Watch, Considered, Connecting, Signalled
<1>6. Beating
  BY <1>1, <1>3 DEF Beating, Beat
<1> QED
  BY <1>3, <1>4, <1>5, <1>6 DEF Up

(* A connection the server accepts stays up while both sides do what is due *)
(* within a unit of time, whatever the keep_alive the client asks for and   *)
(* whatever else they do but closing it: MQTT_KEEP_ALIVE_TIMEOUT is added   *)
(* to what the server waits, and only has to be above 0.                    *)
THEOREM AcceptedStaysUp ==
    ASSUME Closers = {}, KeepAliveTimeout > 0
    PROVE  Spec => []StaysUp
<1>1. Init => AllSafe /\ UpInv
  BY SafeInit, UpInit DEF AllSafe
<1>2. TypeOK /\ AllSafe /\ UpInv /\ [Next]_vars => AllSafe' /\ UpInv'
  BY QueuesStep, SafeStep, UpStep DEF AllSafe
<1>3. UpInv => StaysUp
  BY DEF UpInv, Up, Undisturbed, StaysUp
<1> QED
  BY <1>1, <1>2, <1>3, TypeCorrect, PTL DEF Spec

=============================================================================
