----------------------------- MODULE MCLibrary -----------------------------
(***************************************************************************)
(* Small instances of the modules about single parts of the library.  They *)
(* share nothing: a behaviour chooses one part and steps through it alone. *)
(***************************************************************************)
EXTENDS MqttFraming, Buffer, Clock, Repeater, WsFraming, MCHttp, Url, Base64, Json,
        MqttRecords, StreamLife, Strings, ObserverList, NetInterfaces

VARIABLE part       \* the part whose behaviour this is

vars == <<part, framingVars, bufferVars, clockVars, repeaterVars, wsVars, httpVars,
          url, plain, subject, recordVars, lifeVars, stringVars, observerVars, netVars>>

Init ==
    /\ part \in {"framing", "buffer", "clock", "repeater", "ws", "http",
                 "url", "base64", "json", "records", "life", "strings", "observers", "net"}
    /\ FramingInit /\ BufferInit /\ ClockInit /\ RepeaterInit
    /\ WsInit /\ HttpInit /\ UrlInit /\ Base64Init
    /\ JsonInit /\ RecordsInit /\ LifeInit /\ StringsInit /\ ObserversInit /\ NetInit
    /\ part # "clock" => driver = "ticks"
    /\ part # "strings" => original = <<>>
    /\ part # "net" => ifaddrs = <<>>

Next ==
    \/ /\ part = "framing" /\ FramingNext
       /\ UNCHANGED <<part, bufferVars, clockVars, repeaterVars, wsVars, httpVars,
                      url, plain, subject, recordVars, lifeVars,
                      stringVars, observerVars, netVars>>
    \/ /\ part = "buffer" /\ BufferNext
       /\ UNCHANGED <<part, framingVars, clockVars, repeaterVars, wsVars, httpVars,
                      url, plain, subject, recordVars, lifeVars,
                      stringVars, observerVars, netVars>>
    \/ /\ part = "clock" /\ ClockNext
       /\ UNCHANGED <<part, framingVars, bufferVars, repeaterVars, wsVars, httpVars,
                      url, plain, subject, recordVars, lifeVars,
                      stringVars, observerVars, netVars>>
    \/ /\ part = "repeater" /\ RepeaterNext
       /\ UNCHANGED <<part, framingVars, bufferVars, clockVars, wsVars, httpVars,
                      url, plain, subject, recordVars, lifeVars,
                      stringVars, observerVars, netVars>>
    \/ /\ part = "ws" /\ WsNext
       /\ UNCHANGED <<part, framingVars, bufferVars, clockVars, repeaterVars, httpVars,
                      url, plain, subject, recordVars, lifeVars,
                      stringVars, observerVars, netVars>>
    \/ /\ part = "http" /\ HttpNext
       /\ UNCHANGED <<part, framingVars, bufferVars, clockVars, repeaterVars, wsVars,
                      url, plain, subject, recordVars, lifeVars,
                      stringVars, observerVars, netVars>>
    \/ /\ part = "url" /\ UrlNext
       /\ UNCHANGED <<part, framingVars, bufferVars, clockVars, repeaterVars, wsVars,
                      httpVars, plain, subject, recordVars, lifeVars,
                      stringVars, observerVars, netVars>>
    \/ /\ part = "base64" /\ Base64Next
       /\ UNCHANGED <<part, framingVars, bufferVars, clockVars, repeaterVars, wsVars,
                      httpVars, url, subject, recordVars, lifeVars,
                      stringVars, observerVars, netVars>>
    \/ /\ part = "json" /\ JsonNext
       /\ UNCHANGED <<part, framingVars, bufferVars, clockVars, repeaterVars, wsVars,
                      httpVars, url, plain, recordVars, lifeVars,
                      stringVars, observerVars, netVars>>
    \/ /\ part = "records" /\ RecordsNext
       /\ UNCHANGED <<part, framingVars, bufferVars, clockVars, repeaterVars, wsVars,
                      httpVars, url, plain, subject, lifeVars, stringVars, observerVars, netVars>>
    \/ /\ part = "life" /\ LifeNext
       /\ UNCHANGED <<part, framingVars, bufferVars, clockVars, repeaterVars, wsVars,
                      httpVars, url, plain, subject, recordVars, stringVars, observerVars, netVars>>
    \/ /\ part = "strings" /\ StringsNext
       /\ UNCHANGED <<part, framingVars, bufferVars, clockVars, repeaterVars, wsVars,
                      httpVars, url, plain, subject, recordVars, lifeVars, observerVars, netVars>>
    \/ /\ part = "observers" /\ ObserversNext
       /\ UNCHANGED <<part, framingVars, bufferVars, clockVars, repeaterVars, wsVars,
                      httpVars, url, plain, subject, recordVars, lifeVars, stringVars, netVars>>
    \/ /\ part = "net" /\ NetNext
       /\ UNCHANGED <<part, framingVars, bufferVars, clockVars, repeaterVars, wsVars,
                      httpVars, url, plain, subject, recordVars, lifeVars,
                      stringVars, observerVars>>

Spec == Init /\ [][Next]_vars

-----------------------------------------------------------------------------
(* Values of the constants.                                                *)

Bytewise(n) == [i \in 1..n |-> (53 * i) % 256]

ConnectCall ==
    [type |-> "CONNECT", clean_session |-> TRUE, keep_alive |-> 300, client_id |-> Bytewise(2),
     will_topic |-> NULL, will_msg |-> NULL, will_msg_len |-> 0, will_retain |-> FALSE,
     will_qos |-> 0, user_name |-> NULL, password |-> NULL, password_len |-> 0]

WithWill(m, retain) ==
    [m EXCEPT !.will_topic = Bytewise(1), !.will_msg = Bytewise(3), !.will_msg_len = 3,
              !.will_qos = 2, !.will_retain = retain]

WithLogin(m) ==
    [m EXCEPT !.clean_session = FALSE, !.user_name = Bytewise(3), !.password = Bytewise(2),
              !.password_len = 2]

PublishCall(qos, n) ==
    [type |-> "PUBLISH", retain |-> qos = 0, dup |-> qos = 2, qos |-> qos, id |-> 258,
     topic |-> Bytewise(1), payload |-> Bytewise(n)]

\* Among the publications are one with the longest length of one byte and one longer.
MCCalls ==
    {ConnectCall, WithWill(WithLogin(ConnectCall), FALSE), WithWill(ConnectCall, TRUE),
     [ConnectCall EXCEPT !.user_name = <<>>],
     PublishCall(0, 0), PublishCall(1, 2), PublishCall(2, 1), PublishCall(1, 122), PublishCall(2, 123),
     [type |-> "CONNACK", session_present |-> TRUE, return_code |-> 5],
     [type |-> "SUBSCRIBE", id |-> 65535, topic |-> Bytewise(2), qos |-> 1],
     [type |-> "UNSUBSCRIBE", id |-> 256, topic |-> Bytewise(2)],
     [type |-> "SUBACK", id |-> 1, return_code |-> 128],
     [type |-> "PUBREL", id |-> 1],
     [type |-> "PINGREQ"]}

\* A length of five bytes, and a type that does not exist.
MCMalformed == {<<48, 255, 255, 255, 255, 1>>, <<240, 0>>}

Mask == <<1, 255, 170, 90>>

WsFrame(fin, opcode, mask, n) ==
    [fin |-> fin, opcode |-> opcode, mask |-> mask, payload |-> Bytewise(n)]

MCWsFrames ==
    {WsFrame(TRUE, 2, NULL, 0), WsFrame(TRUE, 9, Mask, 0), WsFrame(FALSE, 1, Mask, 5),
     WsFrame(TRUE, 0, NULL, 125), WsFrame(TRUE, 2, Mask, 126), WsFrame(TRUE, 2, NULL, 128)}

MCSampleLengths ==
    {0, 1, 125, 126, 127, 255, 256, 65535, 65536, 65537, 16777216, 2000000000}

MCUrlParts ==
    [scheme |-> {NULL} \cup {Schemes[i].name : i \in DOMAIN Schemes},
     userinfo |-> {NULL, <<>>, <<97, 98>>},
     host |-> {NULL, <<97, 98, 99>>},
     port |-> {NULL, <<>>, <<56, 48>>},
     path |-> {NULL, <<47>>, <<47, 97, 47>>},
     query |-> {NULL, <<>>, <<97, 98>>}]

MCBase64Samples ==
    UNION {[1..n -> {0, 3, 90, 255}] : n \in 1..3}
    \cup {Bytewise(n) : n \in 0..330}

J(type, value) == [type |-> type, value |-> value]

A == J("int", 1)

B == J("string", <<97>>)

Nil == J("null", 0)

\* No two of them are equal.
MCJsonSamples ==
    <<A, B, Nil, J("int", -2), J("string", <<>>), J("string", <<98, 97>>), J("boolean", TRUE), J("double", 1),
      J("object", <<>>), J("object", [a |-> A]), J("object", [a |-> B]),
      J("object", [a |-> A, b |-> Nil]), J("object", [b |-> Nil]),
      J("array", <<>>), J("array", <<A>>), J("array", <<A, A>>), J("array", <<A, B>>),
      J("array", <<B, A>>), J("array", <<B, A, A>>),
      J("object", [a |-> J("array", <<A>>)]), J("object", [a |-> J("array", <<B, A>>)]),
      J("object", [a |-> J("array", <<B, A>>), c |-> J("object", [a |-> A])]),
      J("object", [c |-> J("object", [a |-> A, b |-> B])]),
      J("object", [c |-> J("object", [b |-> B])]),
      J("array", <<J("object", [a |-> A])>>), J("array", <<J("object", [a |-> A, b |-> Nil])>>),
      J("array", <<J("object", [b |-> Nil]), J("object", [a |-> A, b |-> Nil])>>),
      J("array", <<J("array", <<A>>), J("array", <<>>)>>), J("array", <<J("array", <<>>)>>)>>

\* A separator at the end, two side by side, and none.
MCTokenTexts == {<<97, 47, 98, 59, 99, 59>>, <<59, 47, 97, 98>>, <<>>}

MCSeparatorSets == {{47, 59}, {59}, {97, 59}, {}}

MCCopyTexts == {<<>>, <<1>>, <<2, 3, 4>>}

Inet(bits) == [family |-> "inet", bits |-> bits]

Inet6(bits) == [family |-> "inet6", bits |-> bits]

Iface(addr, mask, up, running) == [addr |-> addr, mask |-> mask, up |-> up, running |-> running]

\* Networks of different prefixes within one another, one that is down, one that does
\* not run, a tunnel without an address, and an address without a netmask.
MCInterfaceLists ==
    LET wide   == Iface(Inet(<<1, 1, 1>>), Inet(<<1, 0, 0>>), TRUE, TRUE)
        narrow == Iface(Inet(<<1, 0, 1>>), Inet(<<1, 1, 0>>), TRUE, TRUE)
        down   == Iface(Inet(<<0, 0, 1>>), Inet(<<1, 1, 0>>), FALSE, TRUE)
        idle   == Iface(Inet(<<0, 0, 0>>), Inet(<<1, 0, 0>>), TRUE, FALSE)
        ip6    == Iface(Inet6(<<0, 1, 1, 0>>), Inet6(<<1, 1, 0, 0>>), TRUE, TRUE)
        tunnel == Iface(NULL, NULL, TRUE, TRUE)
        bare   == Iface(Inet(<<0, 1, 1>>), NULL, TRUE, TRUE)
    IN  {<<>>, <<wide, ip6, narrow>>, <<tunnel, down, narrow, tunnel, ip6, idle>>,
         <<ip6, down, idle, ip6>>, <<narrow, wide>>,
         <<narrow, ip6, bare, wide>>}

MCDestinations == {Inet(<<i, j, k>>) : i, j, k \in 0..1} \cup {Inet6(<<0, i, j, 1>>) : i, j \in 0..1}

MCTexts == {<<1>>}

MCDatas == {<<>>, <<7, 8>>}

=============================================================================
