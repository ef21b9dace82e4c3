----------------------------- MODULE MqttFraming -----------------------------
(***************************************************************************)
(* One direction of an MQTT stream, byte by byte: the calls that write a   *)
(* packet (stream_mqtt.c with the formats of MqttCodec), the bytes on      *)
(* their way, and the loop of stream_mqtt_peek_frame that finds the frames *)
(* again however the bytes are cut into reads.  StreamMqtt takes for       *)
(* granted what is checked here: that frames arrive as they were sent.     *)
(***************************************************************************)
EXTENDS MqttCodec

CONSTANTS
    Calls,          \* what the sender's application may call the stream with
    MaxCalls,       \* bound on the calls of one behaviour
    ReadSizes,      \* numbers of bytes one read of the decorated stream returns
    ReadLimit,      \* MQTT_MESSAGE_BUFFER_SIZE, the most a read returns
    Malformed       \* bytes that are no frame, from a peer that is not this code

-----------------------------------------------------------------------------
(* What an application may call the stream with.                           *)

\* A text, or data, whose length fits into the two bytes that hold it.
ShortTexts == {s \in Seq(Byte) : Len(s) < ShortSize}

Shorts == {v \in Nat : v < ShortSize}

\* A will has a topic and a message, and what is there is not empty, for the size of
\* the packet is computed from the lengths and its fields are written by their pointers.
ConnectCalls ==
    {m \in [type : {"CONNECT"}, clean_session : BOOLEAN, keep_alive : Shorts,
            client_id : ShortTexts, will_retain : BOOLEAN, will_qos : 0..3,
            will_topic : ShortTexts \cup {NULL},
            will_msg : ShortTexts \cup {NULL}, will_msg_len : Nat,
            user_name : ShortTexts \cup {NULL},
            password : ShortTexts \cup {NULL}, password_len : Nat] :
        /\ m.will_topic = NULL <=> m.will_msg = NULL
        /\ m.will_msg_len = (IF m.will_msg = NULL THEN 0 ELSE Len(m.will_msg))
        /\ m.password_len = (IF m.password = NULL THEN 0 ELSE Len(m.password))
        /\ m.will_msg # NULL => m.will_msg_len > 0
        /\ m.password # NULL => m.password_len > 0}

\* A payload is announced whole, and cut to the unsigned short that its length is
\* written and read with: what is longer does not come back.
PublishCalls ==
    [type : {"PUBLISH"}, retain : BOOLEAN, dup : BOOLEAN, qos : 0..3, id : Shorts,
     topic : ShortTexts, payload : ShortTexts]

IdTypes == {"UNSUBACK", "PUBACK", "PUBREC", "PUBREL", "PUBCOMP"}

PossibleCalls ==
    ConnectCalls \cup PublishCalls
    \cup [type : {"CONNACK"}, session_present : BOOLEAN, return_code : Byte]
    \cup [type : {"SUBSCRIBE"}, id : Shorts, topic : ShortTexts, qos : Byte]
    \cup [type : {"UNSUBSCRIBE"}, id : Shorts, topic : ShortTexts]
    \cup [type : {"SUBACK"}, id : Shorts, return_code : Byte]
    \cup [type : IdTypes, id : Shorts]
    \cup [type : {"PINGREQ", "PINGRESP", "DISCONNECT"}]

ASSUME FramingAssumption ==
    /\ MaxCalls \in Nat /\ ReadLimit \in Nat \ {0} /\ ReadSizes \subseteq Nat
    /\ NULL \notin ShortTexts
    /\ Calls \subseteq PossibleCalls /\ Malformed \subseteq Seq(Byte)

-----------------------------------------------------------------------------
VARIABLES
    calls,          \* the calls made, in their order
    wire,           \* bytes written that the receiver has not read
    received,       \* self->buffer of the receiver
    parsing,        \* the receiver is in its loop over that buffer
    handled,        \* what stream_mqtt_handle_received_frame found in each frame
    spoiled         \* the calls made before something malformed, -1 without

framingVars == <<calls, wire, received, parsing, handled, spoiled>>

-----------------------------------------------------------------------------
(* The calls.  Acknowledgements and pings are written by the library.      *)

PublishFlags(m) == QosToFlags(m.qos) + Flag(m.retain, 1) + Flag(m.dup, 8)

\* stream_mqtt_pubrel and stream_mqtt_write_frame_packet_id
IdFlags(type) == IF type = "PUBREL" THEN QosToFlags(1) ELSE 0

\* The bytes of the packet that a call writes.
Written(m) ==
    CASE m.type = "CONNECT"     -> FixedHeader("CONNECT", 0, EvalConnect(m)) \o FormatConnect(m)
      [] m.type = "CONNACK"     -> FormatFrame("CONNACK", 0, FormatConnack(m))
      [] m.type = "PUBLISH"     -> FixedHeader("PUBLISH", PublishFlags(m), EvalPublish(m))
                                   \o FormatPublish(m)
      [] m.type = "SUBSCRIBE"   -> FixedHeader("SUBSCRIBE", QosToFlags(1), EvalSubscribe(m))
                                   \o FormatSubscribe(m)
      [] m.type = "UNSUBSCRIBE" -> FixedHeader("UNSUBSCRIBE", QosToFlags(1), EvalUnsubscribe(m))
                                   \o FormatUnsubscribe(m)
      [] m.type = "SUBACK"      -> FormatFrame("SUBACK", 0, FormatSuback(m))
      [] m.type \in IdTypes     -> FormatFrame(m.type, IdFlags(m.type), FormatId(m))
      [] OTHER                  -> FormatFrame(m.type, 0, <<>>)

-----------------------------------------------------------------------------
(* What the receiver makes of a frame.                                     *)

ParseBody(type, flags, body) ==
    CASE type = "CONNECT"     -> ParseConnect(body)
      [] type = "CONNACK"     -> ParseConnack(body)
      [] type = "PUBLISH"     -> ParsePublish(body, QosFromFlags(flags))
      [] type = "SUBSCRIBE"   -> ParseSubscribe(body)
      [] type = "SUBACK"      -> ParseSuback(body)
      [] type = "UNSUBSCRIBE" -> ParseUnsubscribe(body)
      [] type \in IdTypes -> ParseId(body)
      [] OTHER                -> [ret |-> 0]

\* Behind malformed bytes a frame may be too short for its fields, and what is
\* read for them is not modelled.
Found(frame) ==
    LET name == PacketName(frame.type)
        body == SubSeq(received, frame.ret + 1, frame.frame_length)
    IN  [type |-> name, flags |-> frame.flags,
         fields |-> IF spoiled \in 0..Len(handled) THEN [ret |-> 0]
                    ELSE ParseBody(name, frame.flags, body)]

-----------------------------------------------------------------------------
FramingInit ==
    /\ calls = <<>> /\ wire = <<>> /\ received = <<>> /\ handled = <<>>
    /\ parsing = FALSE /\ spoiled = -1

Send ==
    /\ Len(calls) < MaxCalls
    /\ \E m \in Calls :
        /\ calls' = Append(calls, m)
        /\ wire' = wire \o Written(m)
    /\ UNCHANGED <<received, parsing, handled, spoiled>>

SendMalformed ==
    /\ spoiled = -1
    /\ \E bytes \in Malformed : wire' = wire \o bytes
    /\ spoiled' = Len(calls)
    /\ UNCHANGED <<calls, received, parsing, handled>>

\* stream_read of the decorated stream returns some of what has arrived.
ReadBytes ==
    /\ ~parsing
    /\ \E n \in ReadSizes \cup {Len(wire)} :
        /\ n \in 1 .. Lesser(Len(wire), ReadLimit)
        /\ received' = received \o Front(wire, n)
        /\ wire' = Rest(wire, n)
    /\ parsing' = TRUE
    /\ UNCHANGED <<calls, handled, spoiled>>

\* One turn of the loop: a frame is handled, then cut off the buffer.  The
\* handler ignores types that are not in the protocol.
HandleFrame ==
    LET frame == ParseFrame(received)
    IN  /\ parsing /\ frame.ret > 0
        /\ handled' = IF frame.type \in 1..14 THEN Append(handled, Found(frame)) ELSE handled
        /\ received' = Rest(received, frame.frame_length)
        /\ UNCHANGED <<calls, wire, parsing, spoiled>>

DropBuffer ==
    /\ parsing /\ ParseFrame(received).ret < 0
    /\ received' = <<>>
    /\ UNCHANGED <<calls, wire, parsing, handled, spoiled>>

\* The buffer is empty, or holds the beginning of a frame.
AwaitMore ==
    /\ parsing /\ ParseFrame(received).ret = 0
    /\ parsing' = FALSE
    /\ UNCHANGED <<calls, wire, received, handled, spoiled>>

FramingNext ==
    Send \/ SendMalformed \/ ReadBytes \/ HandleFrame \/ DropBuffer \/ AwaitMore

FramingSpec == FramingInit /\ [][FramingNext]_framingVars

-----------------------------------------------------------------------------
(* Properties.                                                             *)

\* What the application of the receiver has to see of a call, taken from the
\* arguments alone.
Meant(m) ==
    CASE m.type = "CONNECT" ->
            [clean_session |-> m.clean_session, keep_alive |-> m.keep_alive,
             will_retain |-> HasWill(m) /\ m.will_retain,
             will_qos |-> IF HasWill(m) THEN m.will_qos ELSE 0,
             client_id |-> m.client_id, will_topic |-> m.will_topic,
             will_msg |-> m.will_msg, user_name |-> m.user_name, password |-> m.password]
      [] m.type \in {"CONNACK"} ->
            [session_present |-> m.session_present, return_code |-> m.return_code]
      [] m.type = "PUBLISH" ->
            [id |-> IF m.qos = 0 THEN NULL ELSE m.id, topic |-> m.topic, payload |-> m.payload]
      [] m.type = "SUBSCRIBE" -> [id |-> m.id, topic |-> m.topic, qos |-> m.qos]
      [] m.type = "UNSUBSCRIBE" -> [id |-> m.id, topic |-> m.topic]
      [] m.type = "SUBACK" -> [id |-> m.id, return_code |-> m.return_code]
      [] m.type \in IdTypes -> [id |-> m.id]
      [] OTHER -> [ret |-> 0]

\* The k-th frame handled is the k-th call: its type, its flags and every field.
Arrived(k) ==
    LET m == calls[k]
    IN  /\ handled[k].type = m.type
        /\ \A field \in DOMAIN Meant(m) : handled[k].fields[field] = Meant(m)[field]
        /\ m.type = "PUBLISH" =>
            /\ QosFromFlags(handled[k].flags) = m.qos
            /\ Has(handled[k].flags, 1) = m.retain
            /\ Has(handled[k].flags, 8) = m.dup
        /\ "ret" \in DOMAIN handled[k].fields => handled[k].fields.ret >= 0

\* However the bytes are cut into reads, the frames handled are the calls made,
\* in their order and with their arguments, up to the first malformed bytes.
FramesIntact ==
    \A k \in DOMAIN handled :
        (spoiled = -1 \/ k <= spoiled) => k \in DOMAIN calls /\ Arrived(k)

\* Once all bytes are read every call has been handled and the buffer is empty:
\* no packet announces more or fewer bytes than it has.
NothingStuck ==
    spoiled = -1 /\ wire = <<>> /\ ~parsing =>
        Len(handled) = Len(calls) /\ received = <<>>

\* Malformed bytes never take away a frame that was complete before them.
EarlierFramesKept ==
    spoiled # -1 /\ wire = <<>> /\ ~parsing => Len(handled) >= spoiled

\* Packets arrive: each as it was sent, all of them, and malformed bytes only cost
\* what comes after them (stream_mqtt_peek_frame with the formats of mqtt.c).
PacketsArrive == FramesIntact /\ NothingStuck /\ EarlierFramesKept

=============================================================================
