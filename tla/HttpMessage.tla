----------------------------- MODULE HttpMessage -----------------------------
(***************************************************************************)
(* A struct http_msg that a program builds and serializes, and the text of *)
(* it parsed again by http_msg_parse_request or _response (http.c), whole  *)
(* or after a part of it has arrived.                                      *)
(***************************************************************************)
EXTENDS CString

CONSTANTS
    HeaderNames,    \* names of headers
    HeaderValues,   \* their values, NULL for none
    HttpBodies,     \* what is appended to a body
    Rooms,          \* sizes of the memory a message is serialized into
    MaxHeaders,     \* bound on the headers of a message
    MaxBody         \* bound on the bytes stored for its body, zeros included

ASSUME HttpAssumption == Rooms \subseteq Nat /\ MaxHeaders \in Nat /\ MaxBody \in Nat

VARIABLES
    message,    \* the sender's struct http_msg, NULL before it is created
    room,       \* the memory of the last http_msg_serialize
    text,       \* what it wrote, NULL if it has returned -1 or the message has changed
    sent,       \* the message as it was then
    got,        \* result and struct http_msg of the last parse, NULL before
    appended,   \* history: all bytes the program has appended to the body
    early       \* history: those of them that it appended before a zero was

httpVars == <<message, room, text, sent, got, appended, early>>

CRLF == <<13, 10>>

HeadersEnd == CRLF \o CRLF

Space == <<32>>

Digits(n) == <<48 + (n \div 100), 48 + ((n \div 10) % 10), 48 + (n % 10)>>

EmptyMessage ==
    [method |-> NULL, uri |-> NULL, version |-> NULL, status |-> 0, reason |-> NULL,
     headers |-> <<>>, body |-> NULL]

-----------------------------------------------------------------------------
(* Serializing.  A part is written only if the memory left is larger than  *)
(* an upper bound of its length; the memory then left is smaller by what   *)
(* was written.                                                            *)

IsRequest(m) == m.method # NULL /\ m.uri # NULL

FirstLine(m) ==
    IF IsRequest(m)
    THEN m.method \o Space \o m.uri \o Space \o m.version \o CRLF
    ELSE m.version \o Space \o Digits(m.status) \o Space \o m.reason \o CRLF

\* The formats are 10 bytes long: 6 more than what is left of them.
FirstLineBound(m) == Len(FirstLine(m)) + 6

HeaderLine(h) == h.name \o <<58, 32>> \o (IF h.value = NULL THEN <<>> ELSE h.value) \o CRLF

HeaderBound(h) == Len(HeaderLine(h)) + 4

\* What is printed of a body: a zero in it ends it.
Printed(body) == LET zero == StrChr(body, 0, 0) IN IF zero = NULL THEN body ELSE Front(body, zero)

Terminated(body) == IF body = NULL THEN NULL ELSE Append(body, 0)

BodyLength(m) == IF m.body = NULL THEN 0 ELSE Len(m.body)

\* All parts of the message in their order, each with the bound it is checked by.
Parts(m) ==
    <<[bytes |-> FirstLine(m), bound |-> FirstLineBound(m)]>>
    \o [i \in DOMAIN m.headers |->
           [bytes |-> HeaderLine(m.headers[i]), bound |-> HeaderBound(m.headers[i])]]
    \o <<[bytes |-> CRLF, bound |-> 2]>>
    \o (IF m.body = NULL THEN <<>>
        ELSE <<[bytes |-> Printed(m.body), bound |-> 2 + BodyLength(m) + 1]>>)

RECURSIVE Joined(_)
Joined(parts) == IF parts = <<>> THEN <<>> ELSE Head(parts).bytes \o Joined(Tail(parts))

Before(parts, i) == Len(Joined(Front(parts, i - 1)))

\* Mutation of Fits: each part is compared with the whole memory.
FitsAlone(parts, i, size) == parts[i].bound < size

Fits(parts, i, size) == parts[i].bound < size - Before(parts, i)

Serialized(m, size) ==
    LET parts == Parts(m)
    IN  IF \A i \in DOMAIN parts : Fits(parts, i, size) THEN Joined(parts) ELSE NULL

\* The body is terminated when all that comes before it was written.
BodyReached(m, size) ==
    LET parts == Parts([m EXCEPT !.body = NULL]) IN \A i \in DOMAIN parts : Fits(parts, i, size)

-----------------------------------------------------------------------------
(* Parsing.                                                                *)

\* http_view_parse: pointers to the three words, the headers and the body.
View(t) ==
    LET end    == StrStr(t, 0, HeadersEnd)
        first  == SkipSpace(t, 0)
        gap    == StrChr(t, first, 32)
        second == IF gap = NULL THEN NULL ELSE SkipSpace(t, gap)
        gap2   == IF second = NULL THEN NULL ELSE StrChr(t, second, 32)
    IN  IF end = NULL THEN NULL
        ELSE [words |-> <<first, second, IF gap2 = NULL THEN NULL ELSE SkipSpace(t, gap2)>>,
              headers |-> StrStr(t, 0, CRLF) + 2, body |-> end + 4]

\* http_header_find from the pointer p on: the pointer to the value.
RECURSIVE HeaderFind(_, _, _)
HeaderFind(t, p, name) ==
    LET start == SkipBlanks(t, p)
        end   == StrStr(t, start, CRLF)
        colon == SkipBlanks(t, start + Len(name))
    IN  IF end = NULL \/ end = start THEN NULL
        ELSE IF ~Begins(t, start, name) THEN HeaderFind(t, end + 2, name)
        ELSE IF t[colon + 1] = 58 THEN SkipBlanks(t, colon + 1) ELSE NULL

\* Mutation of HeaderOf: only the name is trimmed.
HeaderOfUntrimmed(line, colon) ==
    [name |-> RightTrimmed(Front(line, colon)), value |-> Rest(line, colon + 1)]

\* The name in front of the colon is trimmed on its right.  So is the value: if
\* it is empty the index wraps around, and the loop stops at the name.
HeaderOf(line, colon) ==
    [name |-> RightTrimmed(Front(line, colon)),
     value |-> RightTrimmed(LeftTrimmed(Rest(line, colon + 1)))]

\* http_msg_parse_headers: each header is put in at the head of the list.
RECURSIVE ParseHeaders(_, _, _)
ParseHeaders(t, p, headers) ==
    LET start == SkipBlanks(t, p)
        end   == StrStr(t, start, CRLF)
        line  == SubSeq(t, start + 1, end)
        colon == StrChr(line, 0, 58)
    IN  IF end = NULL THEN [ret |-> -1, headers |-> headers]
        ELSE IF end = start THEN [ret |-> 1, headers |-> headers]
        ELSE IF colon = NULL THEN [ret |-> -1, headers |-> headers]
        ELSE ParseHeaders(t, end + 2, <<HeaderOf(line, colon)>> \o headers)

StatusOf(word) == 100 * (word[1] - 48) + 10 * (word[2] - 48) + (word[3] - 48)

Body(t, p) == IF p < Len(t) THEN Rest(t, p) ELSE NULL

\* http_msg_parse_request, http_msg_parse_response.  The program knows which of
\* them to expect, and a serialized message has its three words.
Parsed(t, request) ==
    LET view  == View(t)
        word(i) == WordAt(t, view.words[i])
        list  == ParseHeaders(t, view.headers, <<>>)
    IN  IF view = NULL THEN [ret |-> 0]
        ELSE [ret |-> list.ret,
              msg |-> [method  |-> IF request THEN word(1) ELSE NULL,
                       uri     |-> IF request THEN word(2) ELSE NULL,
                       version |-> IF request THEN word(3) ELSE word(1),
                       status  |-> IF request THEN 0 ELSE StatusOf(word(2)),
                       reason  |-> IF request THEN NULL ELSE word(3),
                       headers |-> list.headers,
                       body    |-> Body(t, view.body)]]

-----------------------------------------------------------------------------
HttpInit ==
    /\ message = NULL /\ room = 0 /\ text = NULL /\ sent = NULL /\ got = NULL
    /\ appended = <<>> /\ early = <<>>

\* What was made of the message before it changed is of no interest any more.
Forgotten == room' = 0 /\ text' = NULL /\ sent' = NULL /\ got' = NULL

NothingAppended == appended' = <<>> /\ early' = <<>>

NewRequest ==
    /\ message = NULL
    /\ message' = [EmptyMessage EXCEPT !.method = <<71>>, !.uri = <<47>>, !.version = <<49>>]
    /\ Forgotten /\ NothingAppended

NewResponse ==
    /\ message = NULL
    /\ message' = [EmptyMessage EXCEPT !.version = <<49>>, !.status = 101, !.reason = <<79, 75>>]
    /\ Forgotten /\ NothingAppended

AddHeader ==
    /\ message # NULL /\ Len(message.headers) < MaxHeaders
    /\ \E name \in HeaderNames, value \in HeaderValues :
        message' = [message EXCEPT !.headers = <<[name |-> name, value |-> value]>> \o @]
    /\ Forgotten
    /\ UNCHANGED <<appended, early>>

RemoveHeader ==
    /\ message # NULL
    /\ \E name \in HeaderNames :
        message' = [message EXCEPT !.headers = SelectSeq(@, LAMBDA h : ~SameText(h.name, name))]
    /\ Forgotten
    /\ UNCHANGED <<appended, early>>

IsTerminated(body) == body # NULL /\ StrChr(body, 0, 0) # NULL

\* Serializing may have put a zero behind what was there before.
AppendBody ==
    /\ message # NULL
    /\ BodyLength(message) < MaxBody
    /\ \E bytes \in HttpBodies :
        /\ message' = [message EXCEPT !.body = IF @ = NULL THEN bytes ELSE @ \o bytes]
        /\ appended' = appended \o bytes
        /\ early' = IF IsTerminated(message.body) THEN early ELSE early \o bytes
    /\ Forgotten

\* A message is serialized as often as the program likes: again when the memory was
\* too small, or to be sent again, or after it has changed.
Serialize ==
    /\ message # NULL
    /\ BodyLength(message) < MaxBody
    /\ \E size \in Rooms :
        /\ room' = size
        /\ text' = Serialized(message, size)
        /\ sent' = message
        /\ message' = IF BodyReached(message, size)
                      THEN [message EXCEPT !.body = Terminated(@)] ELSE message
    /\ got' = NULL
    /\ UNCHANGED <<appended, early>>

\* A part of the text has arrived, or all of it.
Parse ==
    /\ text # NULL
    /\ \E n \in 0..Len(text) :
        got' = [arrived |-> n, result |-> Parsed(Front(text, n), IsRequest(sent))]
    /\ UNCHANGED <<message, room, text, sent, appended, early>>

\* http_msg_clean, http_msg_delete
DeleteMessage ==
    /\ message # NULL
    /\ message' = NULL
    /\ Forgotten /\ NothingAppended

HttpNext ==
    \/ NewRequest \/ NewResponse \/ AddHeader \/ RemoveHeader \/ AppendBody
    \/ Serialize \/ Parse \/ DeleteMessage

HttpSpec == HttpInit /\ [][HttpNext]_httpVars

-----------------------------------------------------------------------------
(* Properties.                                                             *)

\* What a receiver has to see of a message but for its body: its headers in the
\* order in which they were added, an empty value for none.
AsReceived(m) ==
    [m EXCEPT !.headers = [i \in DOMAIN @ |->
                              LET h == @[Len(@) + 1 - i]
                              IN  [h EXCEPT !.value = IF @ = NULL THEN <<>> ELSE @]],
              !.body = NULL]

HeadLength(m) == Len(Joined(Parts([m EXCEPT !.body = NULL])))

BytesOf(body) == IF body = NULL THEN <<>> ELSE body

BeginningOf(s, t) == Len(s) <= Len(t) /\ s = Front(t, Len(s))

\* A message that was serialized, the first time or again, is parsed with the words
\* and headers it was built of, unless a part of them has not arrived: then more is
\* asked for.  The body is as much of what was appended as has arrived, in its
\* order; when all has arrived, nothing is missing of what was appended before a
\* zero was.
MessageArrives ==
    got # NULL =>
        LET m == got.result.msg
        IN  IF got.arrived < HeadLength(sent) THEN got.result.ret = 0
            ELSE /\ got.result.ret = 1
                 /\ [m EXCEPT !.body = NULL] = AsReceived(sent)
                 /\ m.body # <<>>
                 /\ Len(BytesOf(m.body)) = got.arrived - HeadLength(sent)
                 /\ BeginningOf(BytesOf(m.body), appended)
                 /\ got.arrived = Len(text) => BeginningOf(early, BytesOf(m.body))

\* The headers of the serialized message with this name, whatever its case.
HeadersNamed(name) == {i \in DOMAIN sent.headers : SameText(sent.headers[i].name, name)}

HeaderFound(name) == HeaderFind(text, View(text).headers, name)

\* The search for a header finds nothing but the first of the searched name, and
\* there its whole value; it finds it if no other name begins with the searched one.
HeadersFound ==
    text # NULL =>
        \A name \in HeaderNames :
            LET value  == HeaderFound(name)
                first  == CHOOSE i \in HeadersNamed(name) : \A j \in HeadersNamed(name) : i <= j
                longer == {i \in DOMAIN sent.headers :
                              Begins(sent.headers[i].name, 0, name)} \ HeadersNamed(name)
            IN  IF value # NULL
                THEN /\ HeadersNamed(name) # {}
                     /\ SubSeq(text, value + 1, StrStr(text, value, CRLF))
                            = BytesOf(sent.headers[first].value)
                ELSE HeadersNamed(name) = {} \/ longer # {}

\* What is written fits into the memory, with a zero behind it.
SerializedFits == text # NULL => Len(text) < room

\* A message is kept on its way from http_msg_new to http_msg_parse: whole or asked
\* for again, with headers that are found, in no more memory than there is.
MessageKept == MessageArrives /\ HeadersFound /\ SerializedFits

\* What the tests of http.c say of a body: the whole text has the whole body, also
\* when the program has appended to it after it was serialized.
BodyArrives ==
    (got # NULL /\ got.arrived = Len(text)) => BytesOf(got.result.msg.body) = appended

=============================================================================
