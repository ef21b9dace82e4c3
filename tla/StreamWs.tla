------------------------------ MODULE StreamWs ------------------------------
(***************************************************************************)
(* Two WebSocket streams (stream_ws.c) over decorated streams that keep    *)
(* all bytes in order.  After the handshake a stream turns the frames it   *)
(* receives into slices, one for each message, from which its application  *)
(* reads either messages (stream_ws_peek_frame and stream_ws_read_frame)   *)
(* or bytes (stream_read).                                                 *)
(*                                                                         *)
(* A frame is two units on its way, so that a read of the decorated stream *)
(* may return less than a frame; the texts of the handshake are one unit:  *)
(* they are parsed by string functions in a buffer that is not terminated, *)
(* and what those make of a part depends on what the memory held before.   *)
(*                                                                         *)
(* net may hold units that have not arrived yet, so a read of the          *)
(* decorated stream may always end with EAGAIN.                            *)
(***************************************************************************)
EXTENDS Timer, SequencesExt

CONSTANTS
    Client, Server,     \* the two streams
    ByteReaders,        \* streams whose application reads bytes
    Writers,            \* streams whose application uses stream_write
    Fragmenters,        \* streams whose application uses stream_ws_write_frame
    Careless,           \* of those, the ones that mask as they like
    Strangers,          \* applications that also write text of their own
    Closers,            \* applications that disconnect
    Crashers,           \* processes that may stop for good
    EarlyData,          \* TRUE: a server may write before it has heard a client
    Opcodes,            \* of messages: TEXT, BINARY
    Lengths,            \* payload lengths
    MaxFrames,          \* bound on the data frames one application writes
    MaxChunk,           \* units that one read of the decorated stream returns
    MaxRead,            \* bytes that one stream_read asks for
    Prompt,             \* TRUE: everything due is done within a unit of time
    ServerTimeout,      \* WS_KEEP_ALIVE_SERVER_TIMEOUT
    ClientTimeout       \* WS_KEEP_ALIVE_CLIENT_TIMEOUT

Peers == {Client, Server}

Other(p) == IF p = Client THEN Server ELSE Client

ASSUME WsAssumption ==
    /\ Client # Server
    /\ \A S \in {ByteReaders, Writers, Fragmenters, Careless, Strangers, Closers, Crashers} :
        S \subseteq Peers
    /\ Opcodes \subseteq {"TEXT", "BINARY"}
    /\ Lengths \subseteq Nat /\ MaxFrames \in Nat /\ MaxChunk \in Nat \ {0} /\ MaxRead \in Nat \ {0}
    /\ EarlyData \in BOOLEAN /\ Prompt \in BOOLEAN
    /\ ServerTimeout \in Nat \ {0} /\ ClientTimeout \in Nat \ {0}

-----------------------------------------------------------------------------
(* Frames, the texts of the handshake, and the units they are on their way. *)

Texts == {"REQUEST", "RESPONSE", "BAD"}

FrameType == [opcode : {"TEXT", "BINARY", "CONTINUE", "CLOSE", "PING", "PONG"} \cup Texts,
              fin : BOOLEAN, masked : BOOLEAN, data : Seq(Nat)]

UnitType == [frame : FrameType, last : BOOLEAN]

SliceType == [opcode : {"TEXT", "BINARY"}, fin : BOOLEAN, data : Seq(Nat)]

Frame(opcode, fin, masked, data) ==
    [opcode |-> opcode, fin |-> fin, masked |-> masked, data |-> data]

Control(opcode, masked) == Frame(opcode, TRUE, masked, <<>>)

Slice(opcode, fin, data) == [opcode |-> opcode, fin |-> fin, data |-> data]

Units(f) ==
    IF f.opcode \in Texts THEN <<[frame |-> f, last |-> TRUE]>>
    ELSE <<[frame |-> f, last |-> FALSE], [frame |-> f, last |-> TRUE]>>

\* ws_parse_frame finds a whole frame at the start of b.
HasFrame(b) == Len(b) >= 2 /\ ~b[1].last

\* http_msg_view_parse_request and _response find a text at the start of b.
HasText(b) == b # <<>> /\ b[1].frame.opcode \in Texts

\* A payload that nobody unmasks.
Garbled(d) == [i \in DOMAIN d |-> 0]

\* How many bytes the first k slices have.
BytesIn(slices, k) == Cardinality(UNION {{i} \X DOMAIN slices[i].data : i \in 1..k})

\* The slice with byte i: one behind those that end in front of it.
SliceOf(slices, i) == Cardinality({k \in DOMAIN slices : BytesIn(slices, k) < i}) + 1

\* The bytes of the slices, one after the other.
Bytes(slices) ==
    [i \in 1..BytesIn(slices, Len(slices)) |->
        LET k == SliceOf(slices, i) IN slices[k].data[i - BytesIn(slices, k - 1)]]

-----------------------------------------------------------------------------
VARIABLES
    \* struct stream_ws, and the status of its struct stream
    status, buffer, client_role, cache, data_type,
    keep_alive, keep_alive_responded, keep_alive_timer,
    loop,       \* the loop over the frames in buffer goes on
    again,      \* errno is EAGAIN
    net,        \* net[p]: units written by the other stream that p has not read
    sent,       \* the messages an application has written, the last maybe open
    received,   \* what it has read: messages, or bytes as slices
    told,       \* a call has returned 0, which means "disconnect"
    gone        \* "no", "closed" (the other side reads end of file), "silent"

timeVars == <<keep_alive, keep_alive_responded, keep_alive_timer>>
appVars == <<sent, received, told, gone>>

vars == <<status, buffer, client_role, cache, data_type, timeVars, loop, again,
          net, appVars>>

Init ==
    /\ status = [p \in Peers |-> "INIT"]
    /\ buffer = [p \in Peers |-> <<>>]
    /\ client_role = [p \in Peers |-> FALSE]
    /\ cache = [p \in Peers |-> <<>>]
    /\ data_type = [p \in Peers |-> "BINARY"]
    /\ keep_alive = [p \in Peers |-> 0]
    /\ keep_alive_responded = [p \in Peers |-> TRUE]
    /\ keep_alive_timer = [p \in Peers |-> Stopped]
    /\ loop = [p \in Peers |-> FALSE]
    /\ again = [p \in Peers |-> FALSE]
    /\ net = [p \in Peers |-> <<>>]
    /\ sent = [p \in Peers |-> <<>>]
    /\ received = [p \in Peers |-> <<>>]
    /\ told = [p \in Peers |-> FALSE]
    /\ gone = [p \in Peers |-> "no"]

-----------------------------------------------------------------------------
(* What the operations are built from.                                     *)

\* The application of p can call the library.
Callable(p) == gone[p] = "no" /\ ~loop[p]

\* stream_ws_write_frame and the texts; nobody reads them at a peer that is gone.
Writes(p, f) ==
    net' = IF gone[Other(p)] = "no" THEN [net EXCEPT ![Other(p)] = @ \o Units(f)] ELSE net

\* The application writes when its stream is ready.  The client speaks first:
\* only then does the server know that the client is ready too.
MayWrite(p) ==
    status[p] = "READY" /\ (p = Client \/ EarlyData \/ received[p] # <<>>)

\* A message whose last frame is not written yet.
Open(p) == sent[p] # <<>> /\ ~Last(sent[p]).fin

\* How many bytes p has written; they are numbered in the order they are written.
ByteCount(p) == BytesIn(sent[p], Len(sent[p]))

NewBytes(p, n) == [i \in 1..n |-> ByteCount(p) + i]

-----------------------------------------------------------------------------
(* Calls of the application that write.                                    *)

\* stream_ws_connect; one call per stream bounds the model.
Connect(p) ==
    /\ p = Client /\ Callable(p) /\ ~client_role[p]
    /\ client_role' = [client_role EXCEPT ![p] = TRUE]
    /\ Writes(p, Control("REQUEST", FALSE))
    /\ UNCHANGED <<status, buffer, cache, data_type, timeVars, loop, again, appVars>>

\* Text that is no valid request or response, written past the stream.
WriteText(p) ==
    /\ p \in Strangers /\ Callable(p)
    /\ status[Other(p)] = "INIT" /\ net[Other(p)] = <<>>
    /\ Writes(p, Control("BAD", FALSE))
    /\ UNCHANGED <<status, buffer, client_role, cache, data_type, timeVars, loop, again, appVars>>

\* stream_ws_do_write: one frame with the opcode of the last message received.
Write(p) ==
    /\ p \in Writers /\ Callable(p) /\ MayWrite(p) /\ ~Open(p)
    /\ Len(sent[p]) < MaxFrames
    /\ \E n \in Lengths :
         /\ Writes(p, Frame(data_type[p], TRUE, client_role[p], NewBytes(p, n)))
         /\ sent' = [sent EXCEPT ![p] = Append(@, Slice(data_type[p], TRUE, NewBytes(p, n)))]
    /\ UNCHANGED <<status, buffer, client_role, cache, data_type, timeVars, loop, again,
                   received, told, gone>>

\* stream_ws_write_frame: the first frame of a message, or its next one.
WriteFrame(p) ==
    /\ p \in Fragmenters /\ Callable(p) /\ MayWrite(p)
    /\ \E n \in Lengths, fin \in BOOLEAN,
          masked \in IF p \in Careless THEN BOOLEAN ELSE {client_role[p]} :
         \/ /\ ~Open(p) /\ Len(sent[p]) < MaxFrames
            /\ \E opcode \in Opcodes :
                 /\ Writes(p, Frame(opcode, fin, masked, NewBytes(p, n)))
                 /\ sent' = [sent EXCEPT ![p] = Append(@, Slice(opcode, fin, NewBytes(p, n)))]
         \/ /\ Open(p)
            /\ fin \/ Len(Last(sent[p]).data) < MaxFrames
            /\ Writes(p, Frame("CONTINUE", fin, masked, NewBytes(p, n)))
            /\ sent' = [sent EXCEPT ![p] =
                    Append(Front(@), Slice(Last(@).opcode, fin, Last(@).data \o NewBytes(p, n)))]
    /\ UNCHANGED <<status, buffer, client_role, cache, data_type, timeVars, loop, again,
                   received, told, gone>>

\* stream_ws_disconnect, of a stream that is connected.
Disconnect(p) ==
    /\ p \in Closers /\ Callable(p) /\ status[p] = "READY"
    /\ Writes(p, Control("CLOSE", client_role[p]))
    /\ status' = [status EXCEPT ![p] = "CLOSING"]
    /\ UNCHANGED <<buffer, client_role, cache, data_type, timeVars, loop, again, appVars>>

-----------------------------------------------------------------------------
(* stream_ws_peek_frame reads the decorated stream until the first message *)
(* is complete or nothing more has arrived.                                *)

\* The first message in the cache is complete: the loop does not read.
HasMessage(p) == cache[p] # <<>> /\ Head(cache[p]).fin

\* The keep-alive interval.  Mutation: the same for both roles.
SameInterval(p) == ClientTimeout

Interval(p) == IF client_role[p] THEN ClientTimeout ELSE ServerTimeout

\* stream_ws_handle_handshake_request and _accept, with b in the buffer.
Handshake(p, b) ==
    \/ /\ HasText(b) /\ b[1].frame.opcode # "BAD"
       /\ status' = [status EXCEPT ![p] = "READY"]
       /\ buffer' = [buffer EXCEPT ![p] = <<>>]
       /\ keep_alive' = [keep_alive EXCEPT ![p] = Interval(p)]
       /\ keep_alive_timer' = [keep_alive_timer EXCEPT ![p] = Started(Interval(p))]
       /\ again' = [again EXCEPT ![p] = TRUE]
       /\ UNCHANGED <<keep_alive_responded, told>>
    \/ /\ HasText(b) /\ b[1].frame.opcode = "BAD"
       /\ buffer' = [buffer EXCEPT ![p] = <<>>]
       /\ told' = [told EXCEPT ![p] = TRUE]
       /\ UNCHANGED <<status, timeVars, again>>
    \/ /\ ~HasText(b)
       /\ buffer' = [buffer EXCEPT ![p] = b]
       /\ again' = [again EXCEPT ![p] = TRUE]
       /\ UNCHANGED <<status, timeVars, told>>

\* The server answers a good request.
Answers(p, b, rest) ==
    net' = IF HasText(b) /\ b[1].frame.opcode = "REQUEST" /\ gone[Other(p)] = "no"
           THEN [net EXCEPT ![p] = rest,
                            ![Other(p)] = @ \o Units(Control("RESPONSE", FALSE))]
           ELSE [net EXCEPT ![p] = rest]

\* One read of the decorated stream that returns n units: more of the
\* handshake, or frames for the loop.
ReadChunk(p) ==
    /\ Callable(p) /\ ~HasMessage(p) /\ ~told[p]
    /\ \E n \in 1..Len(net[p]) :
         LET b    == buffer[p] \o SubSeq(net[p], 1, n)
             rest == SubSeq(net[p], n + 1, Len(net[p]))
         IN  /\ n <= MaxChunk
             /\ IF status[p] = "READY"
                THEN /\ buffer' = [buffer EXCEPT ![p] = b]
                     /\ net' = [net EXCEPT ![p] = rest]
                     /\ loop' = [loop EXCEPT ![p] = HasFrame(b)]
                     /\ UNCHANGED <<status, timeVars, again, told>>
                ELSE Handshake(p, b) /\ Answers(p, b, rest) /\ UNCHANGED loop
    /\ UNCHANGED <<client_role, cache, data_type, sent, received, gone>>

\* The cases of stream_ws_handle_received_frame, for a frame f.

\* The payload as it is given to the application.  Mutation: not unmasked.
NeverUnmasked(p, f) == IF f.masked THEN Garbled(f.data) ELSE f.data

Payload(p, f) == IF f.masked /\ client_role[p] THEN Garbled(f.data) ELSE f.data

\* A client closes the connection when a frame is masked, and goes on.
CloseIfMasked(p, f) ==
    status' = IF f.masked /\ client_role[p] THEN [status EXCEPT ![p] = "CLOSING"] ELSE status

\* What a stream writes in answer to f: its PONG, after a CLOSE that a masked
\* frame may have caused.
Replies(p, f) ==
    LET close == IF f.masked /\ client_role[p] THEN Units(Control("CLOSE", TRUE)) ELSE <<>>
        pong  == IF f.opcode = "PING" THEN Units(Control("PONG", client_role[p])) ELSE <<>>
    IN  net' = IF gone[Other(p)] = "no"
               THEN [net EXCEPT ![Other(p)] = @ \o close \o pong] ELSE net

ReceiveMessage(p, f) ==
    /\ f.opcode \in {"TEXT", "BINARY"}
    /\ data_type' = [data_type EXCEPT ![p] = f.opcode]
    /\ cache' = [cache EXCEPT ![p] = Append(@, Slice(f.opcode, f.fin, Payload(p, f)))]
    /\ UNCHANGED timeVars

\* A frame that goes on belongs to the last slice.  Mutation: to the first.
FirstSlice(q) == 1

LastSlice(q) == Len(q)

ReceiveContinue(p, f) ==
    /\ f.opcode = "CONTINUE"
    /\ cache' = IF cache[p] = <<>> THEN cache
                ELSE [cache EXCEPT ![p][LastSlice(cache[p])] =
                        Slice(@.opcode, f.fin, @.data \o Payload(p, f))]
    /\ UNCHANGED <<data_type, timeVars>>

ReceivePing(p, f) ==
    /\ f.opcode = "PING"
    /\ keep_alive_timer' = [keep_alive_timer EXCEPT ![p] = Started(keep_alive[p])]
    /\ UNCHANGED <<data_type, cache, keep_alive, keep_alive_responded>>

ReceivePong(p, f) ==
    /\ f.opcode = "PONG"
    /\ keep_alive_responded' = [keep_alive_responded EXCEPT ![p] = TRUE]
    /\ UNCHANGED <<data_type, cache, keep_alive, keep_alive_timer>>

\* A CLOSE changes nothing: it is the other side that closes the connection.
ReceiveClose(p, f) ==
    /\ f.opcode = "CLOSE"
    /\ UNCHANGED <<data_type, cache, timeVars>>

\* The loop over the frames in the buffer.  Mutation: it does not end in front
\* of half a frame.
AnyBytes(b) == b # <<>>

MoreFrames(b) == HasFrame(b)

HandleReceivedFrame(p) ==
    LET f    == Head(buffer[p]).frame
        rest == SubSeq(buffer[p], 3, Len(buffer[p]))
    IN  /\ gone[p] = "no" /\ loop[p]
        /\ buffer' = [buffer EXCEPT ![p] = rest]
        /\ loop' = [loop EXCEPT ![p] = MoreFrames(rest)]
        /\ CloseIfMasked(p, f)
        /\ Replies(p, f)
        /\ \/ ReceiveMessage(p, f)
           \/ ReceiveContinue(p, f)
           \/ ReceivePing(p, f)
           \/ ReceivePong(p, f)
           \/ ReceiveClose(p, f)
        /\ UNCHANGED <<client_role, again, appVars>>

-----------------------------------------------------------------------------
(* How the read ends for the application.                                  *)

AtEndOfFile(p) == gone[Other(p)] = "closed" /\ net[p] = <<>>

\* stream_ws_peek_frame returns 0: its end of file, or an empty message.
PeekReturnsZero(p) ==
    IF HasMessage(p) THEN Head(cache[p]).data = <<>> ELSE AtEndOfFile(p)

\* The slices that remain when k bytes of the first were taken.  Mutations: the
\* first is removed with what is left of it, or is not removed when it is empty.
WithoutFirst(q, k) == Tail(q)

KeepingFirst(q, k) ==
    <<[Head(q) EXCEPT !.data = SubSeq(@, k + 1, Len(@))]>> \o Tail(q)

CutFirst(q, k) ==
    LET slice == Head(q)
    IN  IF k = Len(slice.data) THEN Tail(q)
        ELSE <<[slice EXCEPT !.data = SubSeq(slice.data, k + 1, Len(slice.data))]>> \o Tail(q)

\* stream_ws_do_read with room for n bytes.  It does not ask whether the first
\* message is complete, and goes on after a 0 if errno is EAGAIN.
ReadBytes(p) ==
    /\ p \in ByteReaders /\ Callable(p) /\ ~told[p] /\ cache[p] # <<>>
    /\ PeekReturnsZero(p) => again[p]
    /\ \E n \in 1..MaxRead :
         LET slice == Head(cache[p])
             k == IF n < Len(slice.data) THEN n ELSE Len(slice.data)
         IN  /\ received' = [received EXCEPT ![p] =
                    Append(@, Slice(slice.opcode, slice.fin, SubSeq(slice.data, 1, k)))]
             /\ cache' = [cache EXCEPT ![p] = CutFirst(@, k)]
             /\ told' = [told EXCEPT ![p] = k = 0]
    /\ again' = [again EXCEPT ![p] = @ \/ ~HasMessage(p)]
    /\ UNCHANGED <<status, buffer, client_role, data_type, timeVars, loop, net, sent, gone>>

\* stream_ws_read_frame.
ReadFrame(p) ==
    /\ p \notin ByteReaders /\ Callable(p) /\ ~told[p] /\ HasMessage(p)
    /\ received' = [received EXCEPT ![p] = Append(@, Head(cache[p]))]
    /\ cache' = [cache EXCEPT ![p] = Tail(@)]
    /\ UNCHANGED <<status, buffer, client_role, data_type, timeVars, loop, again, net,
                   sent, told, gone>>

\* The same into a buffer that is too short.
ReadFrameTooLong(p) ==
    /\ p \notin ByteReaders /\ Callable(p) /\ HasMessage(p) /\ Head(cache[p]).data # <<>>
    /\ again' = [again EXCEPT ![p] = FALSE]
    /\ UNCHANGED <<status, buffer, client_role, cache, data_type, timeVars, loop, net, appVars>>

\* A read, of frames or bytes, that finds nothing.
ReadNothing(p) ==
    /\ Callable(p) /\ ~HasMessage(p) /\ ~AtEndOfFile(p)
    /\ p \in ByteReaders => cache[p] = <<>>
    /\ again' = [again EXCEPT ![p] = TRUE]
    /\ UNCHANGED <<status, buffer, client_role, cache, data_type, timeVars, loop, net, appVars>>

\* The application is told of a 0, unless stream_ws_do_read takes it for EAGAIN
\* and finds nothing in the cache.
ReadZero(p) ==
    /\ Callable(p) /\ ~told[p] /\ PeekReturnsZero(p)
    /\ IF p \in ByteReaders /\ again[p]
       THEN cache[p] = <<>> /\ UNCHANGED told
       ELSE told' = [told EXCEPT ![p] = TRUE]
    /\ UNCHANGED <<status, buffer, client_role, cache, data_type, timeVars, loop, again,
                   net, sent, received, gone>>

-----------------------------------------------------------------------------
(* Time and the environment.                                               *)

\* Mutation of PingDue: the answer to the last ping is not awaited.
PingWithoutAnswer(p) == Expired(keep_alive_timer[p]) /\ client_role[p]

PingDue(p) ==
    Expired(keep_alive_timer[p]) /\ client_role[p] /\ keep_alive_responded[p]

\* stream_ws_do_time.
DoTime(p) ==
    /\ Callable(p) /\ Expired(keep_alive_timer[p])
    /\ \/ /\ PingDue(p)
          /\ Writes(p, Control("PING", TRUE))
          /\ keep_alive_responded' = [keep_alive_responded EXCEPT ![p] = FALSE]
          /\ keep_alive_timer' = [keep_alive_timer EXCEPT ![p] = Restarted(@)]
          /\ UNCHANGED status
       \/ /\ ~PingDue(p)
          /\ status' = [status EXCEPT ![p] = "CLOSING"]
          /\ UNCHANGED <<net, keep_alive_responded, keep_alive_timer>>
    /\ UNCHANGED <<buffer, client_role, cache, data_type, keep_alive, loop, again, appVars>>

Owed(p) ==
    \/ net[p] # <<>> \/ loop[p] \/ HasMessage(p)
    \/ Expired(keep_alive_timer[p]) /\ status[p] # "CLOSING"

Tick ==
    /\ \E p \in Peers : gone[p] = "no" /\ keep_alive_timer[p].left > 0
    /\ Prompt => \A p \in Peers : gone[p] = "no" => ~Owed(p)
    /\ keep_alive_timer' = [p \in Peers |-> Ticked(keep_alive_timer[p])]
    /\ UNCHANGED <<status, buffer, client_role, cache, data_type, keep_alive,
                   keep_alive_responded, loop, again, net, appVars>>

\* The application deletes a stream that is closing or was told to be.
Close(p) ==
    /\ Callable(p) /\ (told[p] \/ status[p] = "CLOSING")
    /\ gone' = [gone EXCEPT ![p] = "closed"]
    /\ net' = [net EXCEPT ![p] = <<>>]
    /\ UNCHANGED <<status, buffer, client_role, cache, data_type, timeVars, loop, again,
                   sent, received, told>>

\* The process of p stops, or the whole system, which tells nobody.
Crash(p) ==
    /\ p \in Crashers /\ gone[p] = "no"
    /\ \E how \in {"closed", "silent"} : gone' = [gone EXCEPT ![p] = how]
    /\ net' = [net EXCEPT ![p] = <<>>]
    /\ UNCHANGED <<status, buffer, client_role, cache, data_type, timeVars, loop, again,
                   sent, received, told>>

-----------------------------------------------------------------------------
Next ==
    \/ Tick
    \/ \E p \in Peers :
        \/ Connect(p) \/ WriteText(p) \/ Write(p) \/ WriteFrame(p) \/ Disconnect(p)
        \/ ReadChunk(p) \/ HandleReceivedFrame(p)
        \/ ReadBytes(p) \/ ReadFrame(p) \/ ReadFrameTooLong(p) \/ ReadNothing(p) \/ ReadZero(p)
        \/ DoTime(p) \/ Close(p) \/ Crash(p)

Spec == Init /\ [][Next]_vars

\* The application reads what arrives, calls stream_time, and deletes a stream
\* that is closing.
Fairness ==
    /\ WF_vars(Tick)
    /\ \A p \in Peers :
        /\ WF_vars(ReadChunk(p)) /\ WF_vars(HandleReceivedFrame(p))
        /\ WF_vars(ReadBytes(p)) /\ WF_vars(ReadFrame(p)) /\ WF_vars(ReadZero(p))
        /\ WF_vars(DoTime(p)) /\ WF_vars(Close(p))

FairSpec == Spec /\ Fairness

-----------------------------------------------------------------------------
(* Properties.                                                             *)

(* Every variable keeps its type, and the loop over the buffer only goes on *)
(* while a whole frame is in it.                                            *)
TypeOK ==
    /\ status \in [Peers -> {"INIT", "READY", "CLOSING"}]
    /\ buffer \in [Peers -> Seq(UnitType)]
    /\ client_role \in [Peers -> BOOLEAN]
    /\ cache \in [Peers -> Seq(SliceType)]
    /\ data_type \in [Peers -> {"TEXT", "BINARY"}]
    /\ keep_alive \in [Peers -> Nat]
    /\ keep_alive_responded \in [Peers -> BOOLEAN]
    /\ keep_alive_timer \in [Peers -> TimerType]
    /\ loop \in [Peers -> BOOLEAN] /\ again \in [Peers -> BOOLEAN]
    /\ net \in [Peers -> Seq(UnitType)]
    /\ sent \in [Peers -> Seq(SliceType)] /\ received \in [Peers -> Seq(SliceType)]
    /\ told \in [Peers -> BOOLEAN]
    /\ gone \in [Peers -> {"no", "closed", "silent"}]
    /\ \A p \in Peers : loop[p] => HasFrame(buffer[p])

(* An application that reads messages gets what the other one has written,  *)
(* message by message and with its opcode, however the messages were cut    *)
(* into frames, the frames into reads, and whatever control frames lie in   *)
(* between.                                                                 *)
MessagesIntact ==
    \A p \in Peers \ ByteReaders : IsPrefix(received[p], sent[Other(p)])

\* The bytes on their way from one stream to the application of the other.
ToServer == INSTANCE BytePipe WITH
    MaxLength <- Max(Lengths),
    written <- Bytes(sent[Client]),
    read <- Bytes(received[Server])

ToClient == INSTANCE BytePipe WITH
    MaxLength <- Max(Lengths),
    written <- Bytes(sent[Server]),
    read <- Bytes(received[Client])

(* Two streams are a pipe of bytes in each direction, on which streams of   *)
(* other kinds can be stacked: for what the client writes,                  *)
ClientPipe == ToServer!Spec

(* and for what the server writes, which is not masked.                     *)
ServerPipe == ToClient!Spec

(* and so for both at once.                                                 *)
BothPipes == ClientPipe /\ ServerPipe

\* The messages that p has written to the end.
Finished(p) == IF Open(p) THEN Front(sent[p]) ELSE sent[p]

(* Every finished message is read in the end, while nobody leaves and both  *)
(* sides are prompt: nothing stays in the buffer or in the cache, and no    *)
(* stream is closed before it has given away what it has.                   *)
AllRead ==
    \A p \in Peers : <>[](Bytes(received[p]) = Bytes(Finished(Other(p))))

(* A connection stays up while both sides do what is due within a unit of   *)
(* time: the server waits longer than its client between two pings.         *)
StaysUp ==
    (Prompt /\ \A p \in Peers : gone[p] = "no") =>
        \A p \in Peers : status[p] # "CLOSING"

(* A connected stream whose peer stopped without a word is closed in time.  *)
DeadPeerNoticed ==
    \A p \in Peers :
        gone[Other(p)] = "silent" /\ status[p] = "READY" ~> gone[p] # "no"

(* What documents say of the program and the code does not do.              *)

(* A stream that is read at its end of file says so ("return ret; // Error" *)
(* in stream_ws_do_read).                                                   *)
EndOfFileReported ==
    \A p \in Peers : gone[Other(p)] = "closed" ~> gone[p] # "no"

(* "Append received data to last slice": an application gets the bytes of   *)
(* a message also when it reads before the last frame has arrived.          *)
BytesIntact ==
    \A p \in Peers : IsPrefix(Bytes(received[p]), Bytes(sent[Other(p)]))

=============================================================================
