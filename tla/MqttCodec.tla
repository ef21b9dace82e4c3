------------------------------ MODULE MqttCodec ------------------------------
(***************************************************************************)
(* The MQTT packet formats of mqtt.c: what the library writes for a call,  *)
(* and what it reads back from those bytes.  A buffer is a sequence of     *)
(* bytes, so buffer[offset] is b[offset + 1]; a pointer into a buffer with *)
(* its length is the sequence of the bytes it shows.                       *)
(*                                                                         *)
(* Nothing here is recursive: a length has at most five digits, and a body *)
(* is the concatenation of its fields.                                     *)
(***************************************************************************)
EXTENDS Bytes

-----------------------------------------------------------------------------
(* The remaining length: digits of base 128, the lowest first, and 128     *)
(* added to every digit that another one follows.                          *)

MaxLengthSize == 4      \* MQTT_MAX_LENGTH_SIZE

Weight == <<1, 128, 16384, 2097152, 268435456>>

\* Lengths that fit into the four digits the decoder accepts.
Lengths == 0 .. Weight[5] - 1

LengthSize(value) ==
    CASE value < Weight[2] -> 1
      [] value >= Weight[2] /\ value < Weight[3] -> 2
      [] value >= Weight[3] /\ value < Weight[4] -> 3
      [] value >= Weight[4] /\ value < Weight[5] -> 4
      [] OTHER -> 5

\* Mutation of EncodeLength: the last digit is marked like the others.
EncodeAllMarked(value) ==
    [i \in 1..LengthSize(value) |-> 128 + ((value \div Weight[i]) % 128)]

EncodeLength(value) ==
    [i \in 1..LengthSize(value) |->
        ((value \div Weight[i]) % 128) + (IF i < LengthSize(value) THEN 128 ELSE 0)]

Digit(b, n, i) == IF i <= n THEN (b[i] % 128) * Weight[i] ELSE 0

\* Where the number ends: at its first byte without a mark.
LastDigits(b) ==
    {i \in 1..MaxLengthSize :
        /\ i <= Len(b) /\ b[i] < 128
        /\ \A j \in 1 .. i - 1 : b[j] >= 128}

\* Mutation of DecodeLength: a number that is cut off is an error.
DecodeWholeLength(b) ==
    IF LastDigits(b) # {}
    THEN LET n == CHOOSE i \in LastDigits(b) : TRUE
         IN  [ret |-> n,
              value |-> Digit(b, n, 1) + Digit(b, n, 2) + Digit(b, n, 3) + Digit(b, n, 4)]
    ELSE [ret |-> -1, value |-> 0]

\* ret is the number of digits, 0 to ask for more data, -1 for an error: the
\* code asks before it looks at a digit, so four marked bytes are no error yet.
DecodeLength(b) ==
    IF LastDigits(b) # {}
    THEN LET n == CHOOSE i \in LastDigits(b) : TRUE
         IN  [ret |-> n,
              value |-> Digit(b, n, 1) + Digit(b, n, 2) + Digit(b, n, 3) + Digit(b, n, 4)]
    ELSE [ret |-> IF Len(b) <= MaxLengthSize THEN 0 ELSE -1, value |-> 0]

-----------------------------------------------------------------------------
(* Fields.  A length is stored in an unsigned short: the rest of it is     *)
(* lost.                                                                   *)

PutShort(value) == <<(value \div 256) % 256, value % 256>>

PutData(data, length) == Front(data, length % ShortSize)

PutString(str) == PutShort(Len(str)) \o PutData(str, Len(str))

\* The fields that are written only if there is something to write.
PutOptionalString(str) == IF str = NULL THEN <<>> ELSE PutString(str)

PutOptionalData(data, length) ==
    IF data = NULL THEN <<>> ELSE PutShort(length) \o PutData(data, length)

GetShort(b, offset) == 256 * b[offset + 1] + b[offset + 2]

GetData(b, offset, length) == SubSeq(b, offset + 1, offset + length)

\* A string, or data, after its length.
GetString(b, offset) == GetData(b, offset + 2, GetShort(b, offset))

AfterString(b, offset) == offset + 2 + GetShort(b, offset)

\* What a parser returns when its fields end at this offset.
ParseResult(b, offset) == IF offset < Len(b) THEN -1 ELSE offset

StringSize(str) == 2 + Len(str)

OptionalSize(present, length) == IF present THEN 2 + length ELSE 0

-----------------------------------------------------------------------------
(* Frames: the byte with the type and the flags, the length, the body.     *)

PacketType == [CONNECT |-> 1, CONNACK |-> 2, PUBLISH |-> 3, PUBACK |-> 4,
               PUBREC |-> 5, PUBREL |-> 6, PUBCOMP |-> 7, SUBSCRIBE |-> 8,
               SUBACK |-> 9, UNSUBSCRIBE |-> 10, UNSUBACK |-> 11,
               PINGREQ |-> 12, PINGRESP |-> 13, DISCONNECT |-> 14]

PacketName(type) == CHOOSE name \in DOMAIN PacketType : PacketType[name] = type

Flag(condition, mask) == IF condition THEN mask ELSE 0

\* The bit of this mask is set.
Has(flags, mask) == (flags \div mask) % 2 = 1

QosToFlags(qos) == 2 * (qos % 4)

QosFromFlags(flags) == (flags \div 2) % 4

FixedHeader(type, flags, length) == <<16 * PacketType[type] + flags>> \o EncodeLength(length)

FormatFrame(type, flags, body) == FixedHeader(type, flags, Len(body)) \o body

\* ret is the offset of the body, 0 to ask for more data, -1 for an error.
ParseFrame(data) ==
    IF Len(data) < 2 THEN [ret |-> 0, type |-> 0, flags |-> 0, frame_length |-> 2]
    ELSE LET length == DecodeLength(Rest(data, 1))
             total  == 1 + length.ret + length.value
         IN  [ret |-> IF length.ret <= 0 THEN length.ret
                      ELSE IF Len(data) < total THEN 0 ELSE 1 + length.ret,
              type |-> data[1] \div 16, flags |-> data[1] % 16,
              frame_length |-> IF length.ret = 0 THEN Len(data) + 1 ELSE total]

-----------------------------------------------------------------------------
(* CONNECT.                                                                *)

ProtocolName == <<77, 81, 84, 84>>

ProtocolLevel == 4

EvalConnect(m) ==
    10 + StringSize(m.client_id)
       + OptionalSize(m.will_topic # NULL, IF m.will_topic = NULL THEN 0 ELSE Len(m.will_topic))
       + OptionalSize(m.will_msg_len > 0, m.will_msg_len)
       + OptionalSize(m.user_name # NULL, IF m.user_name = NULL THEN 0 ELSE Len(m.user_name))
       + OptionalSize(m.password_len > 0, m.password_len)

HasWill(m) == m.will_topic # NULL /\ m.will_msg # NULL

ConnectFlags(m) ==
    Flag(m.clean_session, 2)
    + (IF HasWill(m) THEN 4 + 8 * (m.will_qos % 4) + Flag(m.will_retain, 32) ELSE 0)
    + Flag(m.password # NULL, 64) + Flag(m.user_name # NULL, 128)

\* Mutation of FormatConnect: the password before the user name.
FormatConnectSwapped(m) ==
    PutString(ProtocolName) \o <<ProtocolLevel, ConnectFlags(m)>> \o PutShort(m.keep_alive)
    \o PutString(m.client_id)
    \o PutOptionalString(m.will_topic) \o PutOptionalData(m.will_msg, m.will_msg_len)
    \o PutOptionalData(m.password, m.password_len) \o PutOptionalString(m.user_name)

FormatConnect(m) ==
    PutString(ProtocolName) \o <<ProtocolLevel, ConnectFlags(m)>> \o PutShort(m.keep_alive)
    \o PutString(m.client_id)
    \o PutOptionalString(m.will_topic) \o PutOptionalData(m.will_msg, m.will_msg_len)
    \o PutOptionalString(m.user_name) \o PutOptionalData(m.password, m.password_len)

\* Fields that are not in the packet are left as they were: NULL here.
ParseConnect(b) ==
    LET level   == AfterString(b, 0)
        flags   == b[level + 2]
        id      == level + 4
        will    == Has(flags, 4)
        topic   == AfterString(b, id)
        msg     == IF will THEN AfterString(b, topic) ELSE topic
        user    == IF will THEN AfterString(b, msg) ELSE topic
        pass    == IF Has(flags, 128) THEN AfterString(b, user) ELSE user
        end     == IF Has(flags, 64) THEN AfterString(b, pass) ELSE pass
        If(present, offset) == IF present THEN GetString(b, offset) ELSE NULL
    IN  [ret           |-> ParseResult(b, end),
         clean_session |-> Has(flags, 2),
         will_retain   |-> Has(flags, 32),
         will_qos      |-> (flags \div 8) % 4,
         keep_alive    |-> GetShort(b, level + 2),
         client_id     |-> GetString(b, id),
         will_topic    |-> If(will, topic),
         will_msg      |-> If(will, msg),
         user_name     |-> If(Has(flags, 128), user),
         password      |-> If(Has(flags, 64), pass)]

-----------------------------------------------------------------------------
(* The other packets with a body.                                          *)

FormatConnack(m) == <<Flag(m.session_present, 1), m.return_code>>

ParseConnack(b) ==
    [ret |-> ParseResult(b, 2), session_present |-> Has(b[1], 1), return_code |-> b[2]]

EvalPublish(m) == StringSize(m.topic) + Flag(m.qos > 0, 2) + Len(m.payload)

FormatPublish(m) ==
    PutString(m.topic) \o (IF m.qos > 0 THEN PutShort(m.id) ELSE <<>>)
    \o PutData(m.payload, Len(m.payload))

ParsePublish(b, qos) ==
    LET offset == AfterString(b, 0) + Flag(qos > 0, 2)
    IN  [id      |-> IF qos > 0 THEN GetShort(b, AfterString(b, 0)) ELSE NULL,
         topic   |-> GetString(b, 0),
         payload |-> GetData(b, offset, (Len(b) - offset) % ShortSize)]

EvalSubscribe(m) == 2 + StringSize(m.topic) + 1

FormatSubscribe(m) == PutShort(m.id) \o PutString(m.topic) \o <<m.qos>>

ParseSubscribe(b) ==
    LET offset == AfterString(b, 2)
    IN  [ret |-> ParseResult(b, offset + 1),
         id |-> GetShort(b, 0), topic |-> GetString(b, 2), qos |-> b[offset + 1]]

FormatSuback(m) == PutShort(m.id) \o <<m.return_code>>

ParseSuback(b) ==
    [ret |-> ParseResult(b, 3), id |-> GetShort(b, 0), return_code |-> b[3]]

EvalUnsubscribe(m) == 2 + StringSize(m.topic)

FormatUnsubscribe(m) == PutShort(m.id) \o PutString(m.topic)

ParseUnsubscribe(b) ==
    [ret |-> ParseResult(b, AfterString(b, 2)), id |-> GetShort(b, 0), topic |-> GetString(b, 2)]

\* UNSUBACK and the acknowledgements: mqtt_format_unsuback, var_header_id.
FormatId(m) == PutShort(m.id)

ParseId(b) == [ret |-> ParseResult(b, 2), id |-> GetShort(b, 0)]

=============================================================================
