----------------------------- MODULE StreamMqtt -----------------------------
(***************************************************************************)
(* Two MQTT streams (stream_mqtt.c) talking over decorated streams that    *)
(* keep the order of frames.  A stream owns three queues:                  *)
(*   incoming  received frames the application has not read yet            *)
(*   outgoing  frames waiting for an acknowledgement, and those behind     *)
(*   inbound   QoS 2 publications waiting for the PUBREL                   *)
(* and two timers, for keep-alive and for resending the head of outgoing.  *)
(*                                                                         *)
(* An application message is identified with the packet id it is published *)
(* with (on the wire a QoS 0 frame has no id; here its id stands for its   *)
(* content).  An action is a call of the library on one stream, or one     *)
(* frame handled by the loop of stream_mqtt_peek_frame.  In that loop only *)
(* an observer can call the stream again: to publish, request, answer,     *)
(* disconnect, take frames that wait, or look at the time.  It does not    *)
(* read the decorated stream (Read): the frame it was called for is still  *)
(* at the head of the buffer then, and would be handled and cut twice.     *)
(***************************************************************************)
EXTENDS FrameQueue, Timer, SequencesExt

CONSTANTS
    Client, Server,     \* the two streams
    PacketIds, NoId,    \* packet ids, and the one of frames that carry none
    Publishers,         \* streams whose application publishes
    QosLevels,          \* with these qualities of service
    Requesters,         \* streams whose application subscribes and unsubscribes
    KeepAlives,         \* keep_alive values of stream_mqtt_connect
    ReturnCodes,        \* CONNACK return codes of the server's application
    ObserverReturns,    \* what an observer may answer: TRUE is "handled"
    Closers,            \* streams whose application disconnects or misuses them
    Crashers,           \* streams whose process may stop for good
    MaxLoss,            \* bound on the frames the decorated streams drop
    MaxRead,            \* bound on the frames that one read returns
    MaxLate,            \* bound on the frames on their way while time passes
    Prompt,             \* TRUE: everything due is done within a unit of time
    KeepAliveTimeout,   \* MQTT_KEEP_ALIVE_TIMEOUT
    ResendTimeout,      \* MQTT_RESEND_TIMEOUT
    ResendAttempts      \* MQTT_RESEND_ATTEMPTS

Peers == {Client, Server}

Other(p) == IF p = Client THEN Server ELSE Client

ASSUME PeersAssumption == Client # Server

ASSUME IdsAssumption == NoId \notin PacketIds

ASSUME AppAssumption ==
    /\ Publishers \subseteq Peers /\ Requesters \subseteq Peers
    /\ Closers \subseteq Peers /\ Crashers \subseteq Peers
    /\ QosLevels \subseteq 0..2
    /\ KeepAlives \subseteq Nat /\ ReturnCodes \subseteq Nat
    /\ ObserverReturns \subseteq BOOLEAN
    /\ Prompt \in BOOLEAN

ASSUME NumbersAssumption ==
    /\ MaxLoss \in Nat /\ MaxRead \in Nat \ {0} /\ MaxLate \in Nat
    /\ KeepAliveTimeout \in Nat
    /\ ResendTimeout \in Nat \ {0}
    /\ ResendAttempts \in Nat \ {0}

-----------------------------------------------------------------------------
(* Frames.  arg is the QoS of a PUBLISH, the keep_alive of a CONNECT and   *)
(* the return code of a CONNACK.  An outgoing item also counts how often   *)
(* it was written, which the code does not record.                         *)

FrameTypes == {"CONNECT", "CONNACK", "PUBLISH", "PUBACK", "PUBREC", "PUBREL",
               "PUBCOMP", "SUBSCRIBE", "SUBACK", "UNSUBSCRIBE", "UNSUBACK",
               "PINGREQ", "PINGRESP", "DISCONNECT"}

FrameType == [type : FrameTypes, id : PacketIds \cup {NoId}, arg : Nat]

ItemType == [type : FrameTypes, id : PacketIds \cup {NoId}, arg : Nat, sent : Nat]

Frame(type, id, arg) == [type |-> type, id |-> id, arg |-> arg]

Item(f, n) == [type |-> f.type, id |-> f.id, arg |-> f.arg, sent |-> n]

FrameOf(item) == Frame(item.type, item.id, item.arg)

\* Mutation of RequestType: UNSUBACK falls through to the case of SUBACK.
RequestTypeFallsThrough(type) ==
    CASE type \in {"SUBACK", "UNSUBACK"} -> "SUBSCRIBE"
      [] type \in {"PUBACK", "PUBREC"}   -> "PUBLISH"
      [] type = "PUBCOMP"                -> "PUBREL"

RequestType(type) ==
    CASE type = "SUBACK"               -> "SUBSCRIBE"
      [] type = "UNSUBACK"             -> "UNSUBSCRIBE"
      [] type \in {"PUBACK", "PUBREC"} -> "PUBLISH"
      [] type = "PUBCOMP"              -> "PUBREL"

\* Frames the receiving application owes an answer to, and that answer.
AnswerType(type) ==
    CASE type = "CONNECT"     -> "CONNACK"
      [] type = "SUBSCRIBE"   -> "SUBACK"
      [] type = "UNSUBSCRIBE" -> "UNSUBACK"

Requests == {"CONNECT", "SUBSCRIBE", "UNSUBSCRIBE"}

-----------------------------------------------------------------------------
VARIABLES
    \* struct stream_mqtt, and the status of its struct stream
    status, client_role, incoming, outgoing, inbound, keep_alive,
    keep_alive_responded, keep_alive_timer, resend_attempts, resend_timer,
    \* self->buffer: frames read from the decorated stream, not yet handled
    buffer,
    \* net[p]: frames written by the other stream that p has not read
    net,
    \* the applications: frames given to them, requests they owe an answer to,
    \* the publications and requests they have made
    delivered, todo, published, requested,
    \* items a stream gave up, streams whose process runs, frames dropped
    abandoned, alive, losses

linkVars == <<status, client_role, keep_alive, keep_alive_responded, keep_alive_timer>>
resendVars == <<resend_attempts, resend_timer, abandoned>>
recvVars == <<incoming, delivered, todo>>
callVars == <<published, requested>>
envVars == <<alive, losses>>

vars == <<linkVars, resendVars, recvVars, callVars, envVars,
          outgoing, inbound, buffer, net>>

Init ==
    /\ status = [p \in Peers |-> "INIT"]
    /\ client_role = [p \in Peers |-> FALSE]
    /\ incoming = [p \in Peers |-> <<>>]
    /\ outgoing = [p \in Peers |-> <<>>]
    /\ inbound = [p \in Peers |-> <<>>]
    /\ keep_alive = [p \in Peers |-> 0]
    /\ keep_alive_responded = [p \in Peers |-> TRUE]
    /\ keep_alive_timer = [p \in Peers |-> Stopped]
    /\ resend_attempts = [p \in Peers |-> 0]
    /\ resend_timer = [p \in Peers |-> Stopped]
    /\ buffer = [p \in Peers |-> <<>>]
    /\ net = [p \in Peers |-> <<>>]
    /\ delivered = [p \in Peers |-> <<>>]
    /\ todo = [p \in Peers |-> {}]
    /\ published = [p \in Peers |-> <<>>]
    /\ requested = [p \in Peers |-> {}]
    /\ abandoned = [p \in Peers |-> {}]
    /\ alive = [p \in Peers |-> TRUE]
    /\ losses = 0

-----------------------------------------------------------------------------
(* What the calls and handlers are built from.                             *)

\* The application of p may call the library: it is not inside the loop of
\* stream_mqtt_peek_frame, unless an observer calls.
Callable(p) == alive[p] /\ (buffer[p] = <<>> \/ TRUE \in ObserverReturns)

\* p writes frames (stream_mqtt_real_write); nobody reads them at a dead peer.
Writes(p, frames) ==
    net' = IF alive[Other(p)] THEN [net EXCEPT ![Other(p)] = @ \o frames] ELSE net

SetResendTimer(p, t) == resend_timer' = [resend_timer EXCEPT ![p] = t]

StartResending(p) ==
    /\ SetResendTimer(p, Started(ResendTimeout))
    /\ resend_attempts' = [resend_attempts EXCEPT ![p] = 0]

\* The application of p has the frames now; it will answer the requests.
Hand(p, frames) ==
    /\ delivered' = [delivered EXCEPT ![p] = @ \o frames]
    /\ todo' = [todo EXCEPT ![p] = @ \cup {f \in ToSet(frames) : f.type \in Requests}]

\* stream_mqtt_notify_observer, then the frames its observer did not handle
\* are queued for the application.
Notify(p, frames) ==
    \E handled \in ObserverReturns :
        IF handled
        THEN Hand(p, frames) /\ UNCHANGED incoming
        ELSE /\ incoming' = [incoming EXCEPT ![p] = @ \o frames]
             /\ UNCHANGED <<delivered, todo>>

-----------------------------------------------------------------------------
(* Calls of the application.                                               *)

\* stream_mqtt_connect; one call per stream bounds the model.
Connect(p) ==
    /\ p = Client /\ Callable(p) /\ ~client_role[p]
    /\ \E ka \in KeepAlives :
         /\ keep_alive' = [keep_alive EXCEPT ![p] = ka]
         /\ Writes(p, <<Frame("CONNECT", NoId, ka)>>)
    /\ client_role' = [client_role EXCEPT ![p] = TRUE]
    /\ UNCHANGED <<status, keep_alive_responded, keep_alive_timer, resendVars,
                   recvVars, callVars, envVars, outgoing, inbound, buffer>>

\* stream_mqtt_connack, stream_mqtt_suback and stream_mqtt_unsuback.
Answer(p) ==
    /\ Callable(p)
    /\ \E f \in todo[p], code \in ReturnCodes :
         /\ todo' = [todo EXCEPT ![p] = @ \ {f}]
         /\ Writes(p, <<Frame(AnswerType(f.type), f.id, code)>>)
         /\ status' = IF f.type = "CONNECT" /\ code = 0
                      THEN [status EXCEPT ![p] = "READY"] ELSE status
    /\ UNCHANGED <<client_role, keep_alive, keep_alive_responded, keep_alive_timer,
                   resendVars, incoming, delivered, callVars, envVars,
                   outgoing, inbound, buffer>>

\* Nothing waits for an acknowledgement, so a new frame may be written at once.
\* Mutation: it always is.
AlwaysIdle(p) == TRUE

IsIdle(p) == outgoing[p] = <<>>

\* What publish, subscribe and unsubscribe share: a frame that finds outgoing
\* empty is written at once, one that needs an acknowledgement or finds the
\* queue occupied is queued.
Submit(p, f, acknowledged) ==
    LET first == IsIdle(p)
    IN  /\ IF first THEN Writes(p, <<f>>) ELSE UNCHANGED net
        /\ IF first /\ acknowledged
           THEN StartResending(p) ELSE UNCHANGED <<resend_timer, resend_attempts>>
        /\ outgoing' = IF ~first \/ acknowledged
                       THEN [outgoing EXCEPT ![p] = Append(@, Item(f, IF first THEN 1 ELSE 0))]
                       ELSE outgoing

\* stream_mqtt_publish; the application gives every message an id of its own.
Publish(p) ==
    /\ p \in Publishers /\ Callable(p)
    /\ \E id \in PacketIds, qos \in QosLevels :
         /\ \A f \in ToSet(published[p]) : f.id # id
         /\ published' = [published EXCEPT ![p] = Append(@, Frame("PUBLISH", id, qos))]
         /\ Submit(p, Frame("PUBLISH", id, qos), qos > 0)
    /\ UNCHANGED <<linkVars, abandoned, recvVars, requested, envVars, inbound, buffer>>

\* stream_mqtt_subscribe and stream_mqtt_unsubscribe.
Request(p) ==
    /\ p \in Requesters /\ Callable(p)
    /\ \E type \in {"SUBSCRIBE", "UNSUBSCRIBE"}, id \in PacketIds :
         /\ Frame(type, id, 0) \notin requested[p]
         /\ requested' = [requested EXCEPT ![p] = @ \cup {Frame(type, id, 0)}]
         /\ Submit(p, Frame(type, id, 0), TRUE)
    /\ UNCHANGED <<linkVars, abandoned, recvVars, published, envVars, inbound, buffer>>

\* stream_mqtt_disconnect.
Disconnect(p) ==
    /\ p \in Closers /\ Callable(p) /\ status[p] # "CLOSING"
    /\ Writes(p, <<Frame("DISCONNECT", NoId, 0)>>)
    /\ status' = [status EXCEPT ![p] = "CLOSING"]
    /\ UNCHANGED <<client_role, keep_alive, keep_alive_responded, keep_alive_timer,
                   resendVars, recvVars, callVars, envVars, outgoing, inbound, buffer>>

\* stream_read or stream_write on a stream that only has frames.
ByteCall(p) ==
    /\ p \in Closers /\ Callable(p)
    /\ status' = [status EXCEPT ![p] = "CLOSING"]
    /\ UNCHANGED <<client_role, keep_alive, keep_alive_responded, keep_alive_timer,
                   resendVars, recvVars, callVars, envVars, outgoing, inbound, buffer, net>>

-----------------------------------------------------------------------------
(* Receiving.                                                              *)

\* One read of the decorated stream: some of the frames that have arrived.
\* Nothing is read while the application has frames to take, or in the loop over the
\* frames of an earlier read.
Read(p) ==
    /\ alive[p] /\ buffer[p] = <<>> /\ incoming[p] = <<>>
    /\ \E n \in 1..Len(net[p]) : 
         /\ n <= MaxRead
         /\ buffer' = [buffer EXCEPT ![p] = SubSeq(net[p], 1, n)]
         /\ net' = [net EXCEPT ![p] = SubSeq(@, n + 1, Len(@))]
    /\ UNCHANGED <<linkVars, resendVars, recvVars, callVars, envVars, outgoing, inbound>>

\* stream_mqtt_read_frame: the application takes the first incoming frame.
TakeFrame(p) ==
    /\ Callable(p) /\ incoming[p] # <<>>
    /\ Hand(p, <<Head(incoming[p])>>)
    /\ incoming' = [incoming EXCEPT ![p] = Tail(@)]
    /\ UNCHANGED <<linkVars, resendVars, callVars, envVars, outgoing, inbound, buffer, net>>

\* The cases of stream_mqtt_handle_received_frame, for a frame f.

\* The interval the server grants the client.  Mutation: without the margin.
WithoutMargin(ka) == ka

WithMargin(ka) == ka + KeepAliveTimeout

ReceiveConnect(p, f) ==
    /\ f.type = "CONNECT"
    /\ IF f.arg > 0
       THEN LET ka == WithMargin(f.arg)
            IN  /\ keep_alive' = [keep_alive EXCEPT ![p] = ka]
                /\ keep_alive_timer' = [keep_alive_timer EXCEPT ![p] = Started(ka)]
       ELSE UNCHANGED <<keep_alive, keep_alive_timer>>
    /\ Notify(p, <<f>>)
    /\ UNCHANGED <<status, keep_alive_responded, resend_attempts, resend_timer,
                   outgoing, inbound, net>>

ReceiveConnack(p, f) ==
    /\ f.type = "CONNACK"
    /\ IF f.arg = 0 /\ keep_alive[p] > 0
       THEN /\ keep_alive_timer' = [keep_alive_timer EXCEPT ![p] = Started(keep_alive[p])]
            /\ status' = [status EXCEPT ![p] = "READY"]
       ELSE UNCHANGED <<keep_alive_timer, status>>
    /\ Notify(p, <<f>>)
    /\ UNCHANGED <<keep_alive, keep_alive_responded, resend_attempts, resend_timer,
                   outgoing, inbound, net>>

\* SUBSCRIBE, UNSUBSCRIBE and DISCONNECT only go to the application.
ReceiveForApplication(p, f) ==
    /\ f.type \in {"SUBSCRIBE", "UNSUBSCRIBE", "DISCONNECT"}
    /\ Notify(p, <<f>>)
    /\ UNCHANGED <<status, keep_alive, keep_alive_responded, keep_alive_timer,
                   resend_attempts, resend_timer, outgoing, inbound, net>>

\* A QoS 2 message replaces an earlier copy.  Mutation: the copy stays.
KeepingCopies(q, f) == Append(q, f)

ReplacingCopies(q, f) == Append(Without(q, Matches(q, "PUBLISH", f.id)), f)

\* A QoS 2 message waits for its PUBREL, any other goes to the application.
ReceivePublish(p, f) ==
    /\ f.type = "PUBLISH"
    /\ IF f.arg = 2
       THEN /\ inbound' = [inbound EXCEPT ![p] = ReplacingCopies(@, f)]
            /\ Writes(p, <<Frame("PUBREC", f.id, 0)>>)
            /\ UNCHANGED recvVars
       ELSE /\ IF f.arg = 1 THEN Writes(p, <<Frame("PUBACK", f.id, 0)>>) ELSE UNCHANGED net
            /\ Notify(p, <<f>>)
            /\ UNCHANGED inbound
    /\ UNCHANGED <<status, keep_alive, keep_alive_responded, keep_alive_timer,
                   resend_attempts, resend_timer, outgoing>>

\* The resend timer once the items in acked were removed.  Mutation: it runs on.
TimerRunsOn(p, acked) == resend_timer[p]

TimerAfterAck(p, acked) == IF acked # {} THEN Stopped ELSE resend_timer[p]

\* SUBACK, UNSUBACK, PUBACK, PUBREC and PUBCOMP remove what they acknowledge;
\* a PUBREC puts a PUBREL at the head of the queue, whatever it found.
ReceiveAck(p, f) ==
    LET acked == Matches(outgoing[p], RequestType(f.type), f.id)
        rest  == Without(outgoing[p], acked)
        pubrel == Frame("PUBREL", f.id, 0)
    IN  /\ f.type \in {"SUBACK", "UNSUBACK", "PUBACK", "PUBREC", "PUBCOMP"}
        /\ IF f.type = "PUBREC"
           THEN /\ outgoing' = [outgoing EXCEPT ![p] = InsertHead(Item(pubrel, 1), rest)]
                /\ Writes(p, <<pubrel>>)
                /\ StartResending(p)
           ELSE /\ outgoing' = [outgoing EXCEPT ![p] = rest]
                /\ SetResendTimer(p, TimerAfterAck(p, acked))
                /\ UNCHANGED <<net, resend_attempts>>
        /\ IF f.type \in {"SUBACK", "UNSUBACK"} THEN Notify(p, <<f>>) ELSE UNCHANGED recvVars
        /\ UNCHANGED <<status, keep_alive, keep_alive_responded, keep_alive_timer, inbound>>

\* A PUBREL is always answered, and delivers the message if it still waits.
ReceivePubrel(p, f) ==
    LET waiting == {k \in DOMAIN inbound[p] : inbound[p][k].id = f.id}
    IN  /\ f.type = "PUBREL"
        /\ Writes(p, <<Frame("PUBCOMP", f.id, 0)>>)
        /\ inbound' = [inbound EXCEPT ![p] = Without(@, waiting)]
        /\ Notify(p, Only(inbound[p], waiting))
        /\ UNCHANGED <<status, keep_alive, keep_alive_responded, keep_alive_timer,
                       resend_attempts, resend_timer, outgoing>>

ReceivePing(p, f) ==
    /\ \/ /\ f.type = "PINGREQ"
          /\ Writes(p, <<Frame("PINGRESP", NoId, 0)>>)
          /\ keep_alive_timer' = [keep_alive_timer EXCEPT ![p] = Started(keep_alive[p])]
          /\ UNCHANGED keep_alive_responded
       \/ /\ f.type = "PINGRESP"
          /\ keep_alive_responded' = [keep_alive_responded EXCEPT ![p] = TRUE]
          /\ UNCHANGED <<keep_alive_timer, net>>
    /\ UNCHANGED <<status, keep_alive, resend_attempts, resend_timer, recvVars,
                   outgoing, inbound>>

\* One turn of the loop of stream_mqtt_peek_frame over the frames it has read.
HandleReceivedFrame(p) ==
    LET f == Head(buffer[p])
    IN  /\ alive[p] /\ buffer[p] # <<>>
        /\ buffer' = [buffer EXCEPT ![p] = Tail(@)]
        /\ \/ ReceiveConnect(p, f)
           \/ ReceiveConnack(p, f)
           \/ ReceiveForApplication(p, f)
           \/ ReceivePublish(p, f)
           \/ ReceiveAck(p, f)
           \/ ReceivePubrel(p, f)
           \/ ReceivePing(p, f)
        /\ UNCHANGED <<client_role, callVars, envVars, abandoned>>

-----------------------------------------------------------------------------
(* stream_mqtt_do_time: keep-alive, then at most one frame of outgoing.    *)

\* Mutation of PingDue: the answer to the last ping is not awaited.
PingWithoutAnswer(p) == Expired(keep_alive_timer[p]) /\ client_role[p]

PingDue(p) ==
    Expired(keep_alive_timer[p]) /\ client_role[p] /\ keep_alive_responded[p]

KeepAliveTime(p) ==
    IF PingDue(p)
    THEN /\ keep_alive_responded' = [keep_alive_responded EXCEPT ![p] = FALSE]
         /\ keep_alive_timer' = [keep_alive_timer EXCEPT ![p] = Restarted(@)]
         /\ UNCHANGED status
    ELSE /\ status' = IF Expired(keep_alive_timer[p])
                      THEN [status EXCEPT ![p] = "CLOSING"] ELSE status
         /\ UNCHANGED <<keep_alive_responded, keep_alive_timer>>

\* The writes of one call: the ping, then the frames given.
TimeWrites(p, frames) ==
    Writes(p, (IF PingDue(p) THEN <<Frame("PINGREQ", NoId, 0)>> ELSE <<>>) \o frames)

\* The queue with its head written once more.
Written(q) == InsertHead([q[1] EXCEPT !.sent = @ + 1], Tail(q))

ResendDue(p) == Expired(resend_timer[p]) /\ outgoing[p] # <<>>

\* ++resend_attempts < MQTT_RESEND_ATTEMPTS.  Mutation: <=.
OneMoreAttempt(p) == resend_attempts[p] + 1 <= ResendAttempts

AttemptsLeft(p) == resend_attempts[p] + 1 < ResendAttempts

\* The second half of the function.  Mutation: it is forgotten.
NeverDue(p) == FALSE

NextDue(p) == ~Running(resend_timer[p]) /\ outgoing[p] # <<>>

ResendHead(p) ==
    /\ ResendDue(p) /\ AttemptsLeft(p)
    /\ TimeWrites(p, <<FrameOf(Head(outgoing[p]))>>)
    /\ outgoing' = [outgoing EXCEPT ![p] = Written(@)]
    /\ SetResendTimer(p, Started(ResendTimeout))
    /\ resend_attempts' = [resend_attempts EXCEPT ![p] = @ + 1]
    /\ UNCHANGED abandoned

\* The head is given up and the frame behind it is written.
AbandonHead(p) ==
    LET rest == Tail(outgoing[p])
    IN  /\ ResendDue(p) /\ ~AttemptsLeft(p)
        /\ abandoned' = [abandoned EXCEPT ![p] = @ \cup {Head(outgoing[p])}]
        /\ resend_attempts' = [resend_attempts EXCEPT ![p] = 0]
        /\ IF rest = <<>>
           THEN /\ TimeWrites(p, <<>>)
                /\ outgoing' = [outgoing EXCEPT ![p] = rest]
                /\ SetResendTimer(p, Stopped)
           ELSE /\ TimeWrites(p, <<FrameOf(Head(rest))>>)
                /\ outgoing' = [outgoing EXCEPT ![p] = Written(rest)]
                /\ SetResendTimer(p, Started(ResendTimeout))

\* After an acknowledgement the next frame is written; resend_attempts stays.
WriteNext(p) ==
    /\ NextDue(p)
    /\ TimeWrites(p, <<FrameOf(Head(outgoing[p]))>>)
    /\ outgoing' = [outgoing EXCEPT ![p] = Written(@)]
    /\ SetResendTimer(p, Started(ResendTimeout))
    /\ UNCHANGED <<resend_attempts, abandoned>>

NothingToWrite(p) ==
    /\ ~ResendDue(p) /\ ~NextDue(p)
    /\ TimeWrites(p, <<>>)
    /\ UNCHANGED <<outgoing, resendVars>>

DoTime(p) ==
    /\ Callable(p)
    /\ KeepAliveTime(p)
    /\ ResendHead(p) \/ AbandonHead(p) \/ WriteNext(p) \/ NothingToWrite(p)
    /\ UNCHANGED <<client_role, keep_alive, recvVars, callVars, envVars, inbound, buffer>>

-----------------------------------------------------------------------------
(* The environment.                                                        *)

\* stream_mqtt_do_time of p has something to do.
TimeOwed(p) ==
    \/ Expired(keep_alive_timer[p]) /\ status[p] # "CLOSING"
    \/ Expired(resend_timer[p])
    \/ ~Running(resend_timer[p]) /\ outgoing[p] # <<>>

Owed(p) ==
    \/ net[p] # <<>> \/ buffer[p] # <<>> \/ incoming[p] # <<>> \/ todo[p] # {}
    \/ TimeOwed(p)

\* A unit of time passes for every timer that still has some to go.
Tick ==
    /\ \E p \in Peers : alive[p] /\ (keep_alive_timer[p].left > 0 \/ resend_timer[p].left > 0)
    /\ \A p \in Peers : Len(net[p]) <= MaxLate
    /\ Prompt => \A p \in Peers : alive[p] => ~Owed(p)
    /\ keep_alive_timer' = [p \in Peers |-> Ticked(keep_alive_timer[p])]
    /\ resend_timer' = [p \in Peers |-> Ticked(resend_timer[p])]
    /\ UNCHANGED <<status, client_role, keep_alive, keep_alive_responded, resend_attempts,
                   abandoned, recvVars, callVars, envVars, outgoing, inbound, buffer, net>>

\* A frame never arrives: its write failed (no caller looks at the result), or
\* the receiver dropped it (buffer_reset, a websocket handshake).
Lose(p) ==
    /\ losses < MaxLoss
    /\ \E k \in DOMAIN net[p] : net' = [net EXCEPT ![p] = Without(@, {k})]
    /\ losses' = losses + 1
    /\ UNCHANGED <<linkVars, resendVars, recvVars, callVars, alive, outgoing, inbound, buffer>>

\* The process of p stops and the other side is not told.
Crash(p) ==
    /\ p \in Crashers /\ alive[p]
    /\ alive' = [alive EXCEPT ![p] = FALSE]
    /\ net' = [net EXCEPT ![p] = <<>>]
    /\ UNCHANGED <<linkVars, resendVars, recvVars, callVars, losses, outgoing, inbound, buffer>>

-----------------------------------------------------------------------------
Next ==
    \/ Tick
    \/ \E p \in Peers :
        \/ Connect(p) \/ Answer(p) \/ Publish(p) \/ Request(p) \/ Disconnect(p) \/ ByteCall(p)
        \/ Read(p) \/ HandleReceivedFrame(p) \/ TakeFrame(p) \/ DoTime(p)
        \/ Lose(p) \/ Crash(p)

Spec == Init /\ [][Next]_vars

\* The application polls its streams (idler or loop) and calls stream_time.
Fairness ==
    /\ WF_vars(Tick)
    /\ \A p \in Peers :
        /\ WF_vars(Answer(p)) /\ WF_vars(Read(p)) /\ WF_vars(HandleReceivedFrame(p))
        /\ WF_vars(TakeFrame(p)) /\ WF_vars(DoTime(p))

FairSpec == Spec /\ Fairness

-----------------------------------------------------------------------------
(* Properties.                                                             *)

(* Every variable keeps its type; a queue only holds frames.               *)
TypeOK ==
    /\ status \in [Peers -> {"INIT", "READY", "CLOSING"}]
    /\ client_role \in [Peers -> BOOLEAN]
    /\ incoming \in [Peers -> Seq(FrameType)]
    /\ outgoing \in [Peers -> Seq(ItemType)]
    /\ inbound \in [Peers -> Seq(FrameType)]
    /\ keep_alive \in [Peers -> Nat]
    /\ keep_alive_responded \in [Peers -> BOOLEAN]
    /\ keep_alive_timer \in [Peers -> TimerType]
    /\ resend_attempts \in [Peers -> 0..(ResendAttempts - 1)]
    /\ resend_timer \in [Peers -> TimerType]
    /\ buffer \in [Peers -> Seq(FrameType)]
    /\ net \in [Peers -> Seq(FrameType)]
    /\ delivered \in [Peers -> Seq(FrameType)]
    /\ todo \in [Peers -> SUBSET {f \in FrameType : f.type \in Requests}]
    /\ published \in [Peers -> Seq(FrameType)]
    /\ requested \in [Peers -> SUBSET FrameType]
    /\ abandoned \in [Peers -> SUBSET ItemType]
    /\ alive \in [Peers -> BOOLEAN]
    /\ losses \in 0..MaxLoss

(* stream_mqtt_do_time looks at the head of outgoing when the resend timer  *)
(* expires and never stops a timer that has no frame: whichever handlers    *)
(* empty the queue must have stopped it.                                    *)
ResendTimerHasWork ==
    \A p \in Peers : Running(resend_timer[p]) => outgoing[p] # <<>>

\* The messages published by p, and those its peer has received: its
\* application has them or will find them in incoming.
Published(p) == ToSet(published[p])

Received(p) == delivered[p] \o incoming[p]

Copies(f, q) == Cardinality({k \in DOMAIN q : q[k] = f})

Outgoing(p) == {FrameOf(item) : item \in ToSet(outgoing[p])}

Abandoned(p) == {FrameOf(item) : item \in abandoned[p]}

Pubrel(f) == Frame("PUBREL", f.id, 0)

(* A QoS 2 message is never given to the application twice, whatever is     *)
(* resent, lost, abandoned or acknowledged late (inbound and PUBREL).       *)
ExactlyOnce ==
    \A p \in Peers : \A f \in Published(p) :
        f.arg = 2 => Copies(f, Received(Other(p))) <= 1

(* A message of QoS 1 or 2 leaves the sender only when the receiver has it  *)
(* or the sender gave it up: it is in outgoing, or the receiver holds it    *)
(* for a PUBREL that is in outgoing, or it was received, or abandoned.      *)
NoSilentLoss ==
    \A p \in Peers : \A f \in Published(p) :
        f.arg > 0 =>
            \/ f \in Outgoing(p)
            \/ Pubrel(f) \in Outgoing(p) /\ f \in ToSet(inbound[Other(p)])
            \/ f \in ToSet(Received(Other(p)))
            \/ f \in Abandoned(p) \/ Pubrel(f) \in Abandoned(p)

(* A subscription leaves the queue only with its answer for the application *)
(* (lines 410-429) or when it is abandoned.                                 *)
RequestsAnswered ==
    \A p \in Peers : \A f \in requested[p] :
        \/ f \in Outgoing(p) \cup Abandoned(p)
        \/ \E a \in ToSet(Received(p)) : a.type = AnswerType(f.type) /\ a.id = f.id

(* As long as nothing is lost or abandoned the receiver has got a prefix of *)
(* what was published: queueing behind an unacknowledged head keeps order.  *)
ArrivesInOrder ==
    \A p \in Peers : losses = 0 /\ abandoned[p] = {} =>
        \A i, j \in DOMAIN published[p] :
            i < j /\ published[p][j] \in ToSet(Received(Other(p)))
                => published[p][i] \in ToSet(Received(Other(p)))

(* As long as nothing is abandoned, one frame is in flight, and it has not  *)
(* been written more than MQTT_RESEND_ATTEMPTS times.                       *)
OneInFlight ==
    \A p \in Peers : abandoned[p] = {} =>
        LET flying == {item \in ToSet(outgoing[p]) : item.sent > 0}
        IN  /\ \A x, y \in flying : FrameOf(x) = FrameOf(y)
            /\ \A x \in flying : x.sent <= ResendAttempts

(* Publications do not overtake each other: they leave one after the other  *)
(* (stream_mqtt_publish_message, stream_mqtt_do_time) and so they arrive.   *)
InOrder == ArrivesInOrder /\ OneInFlight

(* An accepted connection is not closed for missing pings while both sides  *)
(* do what is due within a unit of time: MQTT_KEEP_ALIVE_TIMEOUT covers the *)
(* way of a ping.                                                           *)
StaysUp ==
    /\ Prompt /\ losses = 0 /\ \A p \in Peers : alive[p]
    /\ \A f \in ToSet(delivered[Client]) : f.type = "CONNACK" => f.arg = 0
    => \A p \in Peers : status[p] # "CLOSING"

\* What the client publishes, as the abstract specification of delivery sees it.
Publications(levels) == [type : {"PUBLISH"}, id : PacketIds, arg : QosLevels \cap levels]

IsGivenUp(f) == f \in Abandoned(Client) \/ Pubrel(f) \in Abandoned(Client)

Delivery == INSTANCE MqttDelivery WITH
    Messages <- Publications(0..2),
    Acknowledged <- Publications({1, 2}),
    Once <- Publications({2}),
    published <- Published(Client),
    pending <- {f \in Published(Client) : /\ f \in Outgoing(Client) \/ Pubrel(f) \in Outgoing(Client)
                                          /\ ~IsGivenUp(f)},
    givenUp <- {f \in Published(Client) : IsGivenUp(f)},
    received <- [f \in Publications(0..2) |-> Copies(f, Received(Server))]

(* Publishing from the client implements the abstract specification: what   *)
(* the queues, the resends and the acknowledgements do is one of its steps. *)
ClientDelivers == Delivery!Spec

(* Every frame that waits is at last acknowledged or abandoned.             *)
OutgoingDrains ==
    \A p \in Peers : <>[](outgoing[p] = <<>> \/ ~alive[p])

(* A stream whose keep-alive timer runs notices that its peer is gone.      *)
DeadPeerNoticed ==
    \A p \in Peers :
        ~alive[Other(p)] /\ Running(keep_alive_timer[p])
            ~> status[p] = "CLOSING" \/ ~alive[p]

(* What documents say of the program and the code does not do.              *)

(* MQTT_RESEND_ATTEMPTS is 3: a frame is abandoned after that many writes.  *)
AbandonedAfterAllAttempts ==
    \A p \in Peers : \A item \in abandoned[p] : item.sent >= ResendAttempts

(* A keep_alive of 0 is to "Disable keep alive" only: a client whose         *)
(* application got an accepting CONNACK has a stream that is ready.          *)
AcceptedClientReady ==
    \A f \in ToSet(delivered[Client]) :
        f.type = "CONNACK" /\ f.arg = 0 => status[Client] # "INIT"

=============================================================================
