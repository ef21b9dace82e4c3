# Verification of c-mx

c-mx is a library of C modules for programs built around one `select` loop:
streams that are stacked on each other, timers, queues of frames, two protocols
(MQTT 3.1.1 and WebSocket) and the helpers these need. There are no threads.
What makes the code hard is the order in which calls of the application, frames
of the peer, timers and partial reads and writes interleave, on two machines at
once, and what each stream keeps between two calls.

This directory holds TLA+ specifications of that core and of the helpers it is
built from, the TLC configurations that check them on small instances, and proofs
for TLAPS.

1. [The system](#1-the-system)
2. [The modules](#2-the-modules)
3. [The runs](#3-the-runs)
4. [Fairness](#4-fairness)
5. [What is proved](#5-what-is-proved)
6. [Where the code and its documents disagree](#6-where-the-code-and-its-documents-disagree)
7. [What is not modelled](#7-what-is-not-modelled)
8. [Plan](#8-plan)

## 1. The system

### How a program uses it

    application:  loop { idler_wait; for each ready stream: read, write; stream_time }
         |                                       ^
         v calls                                 | observers
    stream_mqtt  or  stream_ws        decorators, each with its own buffers and queues
         |
    stream_ssl                        optional; lets nothing pass before its handshake
         |
    stream                            base: the file descriptor, an outgoing queue
         |
    socket                            takes and gives any part of what it is asked for

A decorator holds a pointer to the stream below and calls `stream_read` and
`stream_write` on it; the virtual table of `struct stream` leads to its own
implementation. An observer is called from inside a read of its stream, and may
call the stream again from there. Nothing is persistent: a restarted process
begins with new streams.

### Inventory

| Component | State | Operations | Hard because | Correct when |
|---|---|---|---|---|
| **MQTT stream** `stream_mqtt.c` | status, role, `incoming`, `outgoing`, `inbound`, two timers, resend attempts, received bytes | connect, publish, subscribe, unsubscribe, answers, disconnect, peek/read a frame, handling each of the 14 packets, `do_time` | acknowledgements come late, twice or not at all; a frame is resent while its answer is on the way; ids are reused; observers call back | QoS 2 exactly once, QoS 1 and 2 never lost in silence, order, one frame in flight, every queue drains, a dead peer is noticed and a live one is not dropped |
| **WebSocket stream** `stream_ws.c` | status, role, buffer of bytes, list of slices, keep-alive timer, last opcode | connect, handshake on both sides, write bytes or frames, peek and read frames, read bytes, ping and pong, close | frames cut by reads, messages cut into frames, control frames between them; three ways for a read to end that share two results and `errno` | messages and bytes arrive whole, once, in order; the end of a connection is reported, and only it |
| **Stream, stack of streams** `stream.c` | status, outgoing queue of slices | write, read, flush, has/handle outgoing data, open, listen, accept, observers | partial writes and EAGAIN at each level; data queued at two levels; flush loops until done | no accepted byte is lost, repeated or overtaken; what waits is reported to `select`; flush ends, and not too early |
| **SSL stream** `stream_ssl.c` | OpenSSL object, handshake finished or not | handshake, read, write through a BIO | a write fails until a read or another write has finished the handshake; errors are reported as 0 | as for a stack |
| **Idler** `idler.c` | list of streams, two `fd_set`s | add, remove, find, wait, status, iterate | streams are removed while the list is iterated; sets are stale after a failed wait; `select` does not know of buffered data | each ready stream is served once per round, none that is not |
| **Timers, clock** `timer.c`, `timer.h` | clocks in seconds, milliseconds and chrono; start and interval of a timer | update, start, restart, stop, expired, remaining | seconds and milliseconds advance separately, by updates of less than a second; interval 0 means stopped; the calendar goes on while the system sleeps | a timer expires at its interval, not before and not much later |
| **Repeater, random** `repeater.c`, `rand.c` | limit, counter, timeout, maximum, timer | set, mark an attempt, wait, back off, reset | random growth with a maximum; changes while it waits | attempts are as far apart as was asked for; a back-off is longer, never over the maximum |
| **Queues** `queue.h`, `list.h` | links | BSD macros | removal during traversal | first match only, order kept |
| **Buffers** `buffer.c` | memory, offset of the data, length, size | append, cut, take, move, copy, resize, reset | cutting moves the start; an append first moves the data back and then asks for memory | the content is what was appended and not taken, and lies within the memory |
| **Observers** `observer.c` | lists of records with object, type and handler | add, remove, find, delete a list | an observer is removed without its list, and freed with it | what is found is what was added last and fits |
| **MQTT codec** `mqtt.c` | – ; `mqtt_msg` and `mqtt_conf` own their texts | eval, format and parse packets; copy, move and clean records | a packet is announced with one function's size, written by a second and read by a third; strings inside a frame; copies that share memory | the reader sees what the writer was given; each text has one owner |
| **WebSocket codec** `websocket.c` | – | format, parse, mask, accept key | three length classes, masks, frames that end anywhere | parse inverts format and waits for whole frames, no longer |
| **HTTP, URL, strings** `http.c`, `url.c`, `string.c` | a message: line, headers, body; a tokenizer's position | build, write, parse, find headers; tokens; bounded copies | input that is not complete, missing parts, texts cut to a size | what is found is what was put in; nothing beyond the end is written |
| **Base64, SHA-1, JSON** | – | encode, decode; compare with a pattern | the last group, line feeds, the estimated size; flags that hold at every depth | round trip within the memory; a strict comparison is equality |
| **Network interfaces** `net.c` | position in the list of interfaces | iterate, match an address, format | interfaces without address, of other families, down | each suiting interface once; a match is in the network |
| **Sockets, pid** `socket.c` | – | system calls | – | – |
| **Log, memory, SSL set-up** | – | – | – | – |

`PROJECT.json` lists every component with the files it consists of, and under
`hazards` each place where something can go wrong that a test would hardly
reach, with the properties that cover it.

## 2. The modules

| Module | Models | Extends |
|---|---|---|
| `Timer` | `struct timer` in seconds and `clock_update` | – |
| `FrameQueue` | the tail queues of frames: insert at the head, remove first match, traverse and remove | – |
| `StreamMqtt` | two MQTT streams, their applications and the way between them | `Timer`, `FrameQueue` |
| `MqttDelivery` | abstract: what publishing promises | – |
| `StreamWs` | two WebSocket streams, their applications and the way between them | `Timer` |
| `BytePipe` | abstract: bytes arrive once and in order | – |
| `StreamStack` | writing through a stack of two streams, with or without SSL between them, to a socket | – |
| `Idler` | the list of streams, a wait, and the round of the iterator while the application changes the list | – |
| `Bytes`, `CString` | bytes, texts, the pointer to nothing; how C searches a text | – |
| `MqttCodec` | the formats of `mqtt.c`: eval, format and parse of every packet | `Bytes` |
| `MqttFraming` | one direction of an MQTT stream in bytes: calls, reads that cut anywhere, the loop that finds the frames | `MqttCodec` |
| `WsFraming` | the same for WebSocket frames, with the formats of `websocket.c` | `Bytes` |
| `ByteFifo` | abstract: a queue of bytes | – |
| `Buffer` | `struct buffer` in its memory; implements `ByteFifo` | – |
| `Clock` | the clocks of `timer.c`, and a timer of any unit | – |
| `Repeater` | `struct repeater` with the random back-off | `Timer` |
| `StreamLife` | who owns which block of memory in a stack of streams, and what its destructors free | – |
| `MqttRecords` | `struct mqtt_msg` and `struct mqtt_conf` as owners of memory | – |
| `HttpMessage`, `Url`, `Base64`, `Json`, `Strings`, `ObserverList`, `NetInterfaces` | the helper of that name | – |
| `MCStreamMqtt`, `MCStreamWs`, `MCLoop`, `MCHttp`, `MCLibrary` | constants for TLC; `MCLoop` puts `Idler` and `StreamStack` side by side, `MCLibrary` the helpers | the modules named |
| `StreamMqttProofs`, `MqttDeliveryProofs`, `MqttOrderProofs` | theorems about `StreamMqtt`, each module on top of the one before: queues and types; what is delivered; requests and order | `StreamMqtt` |
| `StreamWsProofs`, `StreamStackProofs`, `IdlerProofs` | theorems | the module named |
| `FramingProofs` | theorems about `MqttCodec`, `MqttFraming` and `WsFraming` | `MqttFraming`, `WsFraming` |
| `LibraryProofs` | theorems about `Buffer`, `Repeater`, `Clock`, `MqttRecords` and `StreamLife` | these five |

`StreamMqtt` and `StreamWs` each compose two instances of one stream: every
variable of the struct is a function of the peer, so the two sides of a
connection run the same code. `StreamStack` is about the streams below them.
The three meet at `stream_read` and `stream_write` of the decorated stream: what
`StreamStack` shows of its bytes (`Conserved`) is what `StreamMqtt` and
`StreamWs` assume of the way between the peers, where `net[p]` is a sequence that
loses nothing but what a run allows it to (`MaxLoss`). `BytePipe`, which
`StreamWs` implements, is the same promise one level higher. Frames are units
there; that they can be is what `MqttFraming` and `WsFraming` show of their bytes, and
`FramingProofs` of packets and frames of every size and of any number of them. `Buffer` is the memory below both,
and `StreamLife` the memory of the whole stack.

### StreamMqtt

Variables have the names of the fields of `struct stream_mqtt`: `incoming`,
`outgoing`, `inbound`, `keep_alive`, `resend_attempts`, the timers, and `buffer`,
which holds the frames one read has returned that the loop of
`stream_mqtt_peek_frame` has not handled. Added are `net`, and for the
applications what they have `published`, `requested`, been given (`delivered`) and
owe an answer to (`todo`).

| Code | Action |
|---|---|
| `stream_mqtt_connect`, `_connack/_suback/_unsuback`, `_publish`, `_subscribe/_unsubscribe`, `_disconnect` | `Connect`, `Answer`, `Publish`, `Request`, `Disconnect` |
| `stream_mqtt_peek_frame`: its read of the decorated stream | `Read` |
| one turn of its loop, with `stream_mqtt_handle_received_frame` | `HandleReceivedFrame`, one `Receive...` per group of cases |
| `stream_mqtt_read_frame` | `TakeFrame` |
| `stream_mqtt_do_time` | `DoTime`: keep-alive first, then one of `ResendHead`, `AbandonHead`, `WriteNext`, `NothingToWrite` |
| `stream_read`, `stream_write` on an MQTT stream | `ByteCall` |
| the clock; frames dropped below; a process that stops | `Tick`, `Lose`, `Crash` |

The loop is one action per frame because an observer is called between two
frames and may call the library (`ObserverReturns` contains TRUE); without an
observer, no call can come between (`Callable`).

A message is its packet id; the application does not reuse one. Topics, payloads
and the bytes of a frame are left out.

### StreamWs

Variables have the names of `struct stream_ws`. `again` is the part of `errno`
that the code reads: whether it is EAGAIN. A frame is two units on the way, so
that a read can end in the middle of one; `HasFrame` is what `ws_parse_frame`
says of the buffer. `loop` is TRUE between two turns of the loop over the frames in
the buffer. An application either reads messages (`ReadFrame`) or bytes (`ReadBytes`,
for those in `ByteReaders`).

| Code | Action |
|---|---|
| `stream_ws_connect`, `_disconnect`, `_do_write`, `_write_frame` | `Connect`, `Disconnect`, `Write`, `WriteFrame` |
| `stream_ws_peek_frame`: one read; the handshake handlers | `ReadChunk` with `Handshake` and `Answers` |
| one turn of its loop, with `stream_ws_handle_received_frame` | `HandleReceivedFrame` |
| `stream_ws_do_read`, `stream_ws_read_frame` and their ways to end | `ReadBytes`, `ReadFrame`, `ReadFrameTooLong`, `ReadNothing`, `ReadZero` |
| `stream_ws_do_time` | `DoTime` |
| the destructor; a process or system that stops | `Close`, `Crash` |

The text of a request or response is one unit. The code searches it with string
functions in a buffer that it does not terminate, so what it makes of half a
text depends on what the memory held before; the model says nothing about that.

### MqttCodec, MqttFraming, WsFraming

`MqttCodec` has an operator for each function of `mqtt.c` that evaluates, formats or
parses, with offsets into a sequence of bytes where the code has pointers into
memory. `MqttFraming` is a writer that makes a call (`Send`; the functions of
`stream_mqtt.c` that write a packet), a way that gives any number of bytes, and the
reader: `ReadBytes` is `stream_read` into the buffer, `HandleFrame` a turn of the
loop of `stream_mqtt_peek_frame` with the parser of the packet. Once, in place
of a call, malformed bytes may be on the way. `WsFraming` is built alike; besides, it looks
at single lengths (`LengthChecked`) from both sides of each border, up to 2 000 000 000, without the bytes
of so long a payload. The mask is an exclusive or of bytes, written out with its eight bits (`ByteXor`): the
operator of the module `Bitwise` is recursive, and nothing could be proved about it.

### Buffer, Clock, Repeater

`Buffer` numbers the cells of the memory, so what the code writes beyond the end
or reads without having written shows as `Junk`; `realloc` keeps the cells that fit.
`passed` holds what was taken, for the refinement. `Clock` advances a time in
milliseconds that the program sees only in `clock_update` or `clock_update_sys`; `Second` milliseconds
are a second. The counters are `time_t` and have no limit: with 64 bits no program lives to see one, and
the comment of `clock_update` about a wrap is not about this type. The monotonic clock of the system starts at 0 with the program. `Repeater` is a program that does with a repeater what its functions are
for, since no module of the library uses one.

### StreamLife, MqttRecords, ObserverList

Memory is a function from blocks to what they point to. In `StreamLife` a stack is built
from the inside, observed, queues its frames, keeps a handshake, and is deleted from the top. A message that a PUBREL takes out
of `inbound` is in the queue `released` while the observer is called (`Release`), where no field of the stream points to it but a
local variable of the handler; when that returns, it is deleted or moved to `incoming` (`Released`), and meanwhile the program may queue, read and observe.
`xfree` takes the block out of `heap`. The streams of a stack (`InStack`), and what can be reached (`NothingLost`), are
said by closure, not by walks: what is in every set that has the top, or the roots, and where the pointers of its members lead. `MqttRecords` copies and moves records between two slots.
In `ObserverList` an observer may be removed without its list, as `observer_remove` does.

### The texts

`HttpMessage` builds a message, writes it into a given room and
parses what has arrived of it, in any order and again: it may be appended to after it was written. Since writing puts a zero behind the
body, two histories are kept: all that was `appended`, and what was appended before there was a zero (`early`). `Url`, `Base64` and `Json` take one input from the set
that a constant gives, and the properties compare the result with what the
input was made of. `Strings` steps a tokenizer with other separators in every call, and joins texts in
memory of a given size. `NetInterfaces` runs the iterator over lists of interfaces and asks
for the one of an address; a search that reads a netmask which is not there ends the program (`SearchReturned`).

### StreamStack

`topQueue` and `baseQueue` are the outgoing queues (their slices joined: the loop
over slices only stops where the socket does), `tls` how far the handshake is,
`socket` and `received` the bytes on the other side of `write`. Bytes are
numbered, so order and duplicates show. `Write` and `Drain` are `stream_do_write`
and `stream_handle_outgoing_data` of the top stream with all they call in the
streams below; `FlushTurn` and `FlushBelow` are the loop of `stream_do_flush` and its
recursion; what the idler knows of the stack is the guard of `Drain`
(`stream_has_outgoing_data`).

### Idler

`next` and `prev` are the links of `queue.h` as they are in memory: `next[ListHead]` is
`lh_first`, and where `le_prev` points into an element or the head, `prev` names
that owner. `LIST_REMOVE` leaves the links of the removed stream as they are, and
so does `Unlink`: the iterator reads them when the application has removed the
stream it was given. `fd` matters because the two `fd_set`s name descriptors, not
streams, and the kernel gives the lowest free one to the next stream.

| Code | Action |
|---|---|
| `idler_wait`: a turn of `idler_prepare`; `select`; a failing `select` | `StartWait`, `Prepare`, `Select`, `WaitFails` |
| `idler_get_next_stream`: its start, and a turn of its loop | `GetNext` (`Select` for the first of a round), `Scan` |
| `idler_add_stream`, `idler_remove_stream`, `idler_delete` | `AddStream`, `RemoveStream`, `DeleteIdler` |
| what the application does with a stream | `Serve`, `DeleteStream`, `Queue` |

An iterator that follows the link of the last stream cannot survive everything.
What the application must not do while it holds a stream is in three named
guards: put that very stream back at the head (`MayAdd`), remove its successor
after it (`MayRemove`), free its memory (`MayDelete`). Everything else is
allowed, between any two calls. `listed`, `added`, `adds`, `due` and `served` only
record what happened, for the properties (`adds` also bounds the additions).

## 3. The runs

Every passing run lists its properties in `PROJECT.json`, and for each property a
mutant: a plausible mistake in one definition under which TLC finds the property
violated. The operators named in comments as "Mutation" are these mistakes; no
action uses them.

| Run | Shows | States |
|---|---|---|
| `MqttQos` | two publications of any QoS, one lost frame, late acknowledgements: `ExactlyOnce`, `NoSilentLoss`, `InOrder` (one frame is in flight, and what arrives first was published first), `TypeOK`; the client's publishing implements `MqttDelivery` (`ClientDelivers`); every queued frame is acknowledged or abandoned (`OutgoingDrains`) | 180k |
| `MqttRequests` | subscribe, unsubscribe and publish on one id, frames read by the application, a server that may disconnect: `RequestsAnswered`, `ResendTimerHasWork` | 2.3M |
| `MqttLive` | prompt peers that may stop: an accepted connection is not closed (`StaysUp`), a peer that stops is noticed (`DeadPeerNoticed`) | 468k |
| `WsTraffic` | messages in frames and frames in chunks one way, read as messages, whole messages the other way, read as bytes: `MessagesIntact`, `TypeOK`, `StaysUp`; two streams are a `BytePipe` each way and all is read (`BothPipes`, `AllRead`) | 125k |
| `WsLifecycle` | bad handshakes, masked frames, disconnects, crashes: `DeadPeerNoticed` | 214k |
| `Loop` | the select loop: three streams, up to three additions, removals, deletions and reused descriptors in and between rounds: the links are those of the list (`ListLinked`, `TypeOK`), nobody is served twice or unasked (`ServedOnce`) or left out (`ServedAll`), every stream with something to read is read (`EveryoneRead`) | 306k |
| | beside it a stream on the base stream, directly or with SSL between: `Conserved`, `OneQueue`, `StackTypeOK`, `AllArrives`; a flush returns, only when all is written (`FlushCompletes`) | 2.8k |
| `Library` | fourteen helpers, each stepped through on its own; the table below | 788k |

The five other runs are violated on purpose; see section 6.

`MCLoop` and `MCLibrary` choose one part in their initial states and take only that part's
steps, so their behaviours are those of two and of fourteen specifications and their states the
sums; in `MCLoop` each part is under the fairness of its own specification. What `Library` shows:

| Part | Property | which says that |
|---|---|---|
| `MqttFraming` | `PacketsArrive` | every packet comes back with its arguments, in order, whatever the reads (`FramesIntact`); no packet announces a size that it does not have (`NothingStuck`); malformed bytes take nothing away from the frames before them (`EarlierFramesKept`) |
| `WsFraming` | `WsFramesArrive` | frames arrive as written, unmasked (`WsFramesIntact`); a length is read as written, and a part of a frame asks for no byte that will not come (`WsLengthsDecoded`) |
| `Buffer` | `BufferKeepsBytes` | the data stay within the memory (`WithinMemory`); a buffer is a `ByteFifo` (`BufferIsFifo`) |
| `Clock` | `TimersKeepTime` | the seconds are the whole seconds of the milliseconds (`SecondsFollow`); a timer expires not early (`NeverEarly`) and not late (`NeverLate`) |
| `Repeater` | `RepeaterPaces` | attempts are as far apart as asked for (`Spaced`); a back-off grows up to its maximum (`BacksOff`) |
| `StreamLife` | `MemoryOwned` | nothing is used or freed after it was freed (`NothingDangles`), and nothing is left when the streams are deleted (`NothingLost`) |
| `MqttRecords` | `RecordsIndependent` | a record keeps its values whatever happens to the other (`RecordsKeepValues`), and no memory is lost or shared (`OneOwner`) |
| `ObserverList` | `FoundIsNewest` | the newest observer that fits is found |
| `HttpMessage` | `MessageKept` | a message is parsed as it was built, or asked for again if a part of its head is missing; of its body comes what was appended before it was first written, and nothing out of order (`MessageArrives`); it stays in its room (`SerializedFits`); what the search for a header finds is the first of that name with its whole value, and one that no longer name hides is found (`HeadersFound`) |
| `Url` | `UrlUnderstood` | the parts of a URL are found (`UrlPartsFound`) with the port and encryption of its own scheme (`OwnSchemeFound`) |
| `Base64` | `Base64Inverts` | decoding inverts encoding (`Base64RoundTrip`) in the memory that was estimated (`EncodedFits`) |
| `Json` | `ComparesPatterns` | strict comparison is equality (`StrictIsEquality`), and a pattern of a pattern is a pattern of the whole (`PatternsCompose`) |
| `Strings` | `TextsKept` | tokens with their separators are the text (`TokensAreTheText`); copies follow one another and stay inside (`TextBuilt`) |
| `NetInterfaces` | `InterfacesFound` | each suiting interface is returned once in its order (`EachInterfaceOnce`); a match is in the network of an interface that is up, and only one without a netmask in front of it stops the search (`MatchIsInNetwork`) |

Each is the conjunction of the named parts in the last column, and there is a mutant
for each of these.

### Bounds, and why they are enough

* Two packet ids (`MCPacketIds`) are the least with a frame behind another in
  `outgoing`. With one id (`MCOneId`) a SUBSCRIBE, an UNSUBSCRIBE and a PUBLISH
  share it, which is what `stream_mqtt_remove_frame` must tell apart.
* `MaxLoss = 1`: any one frame can be lost, and its resend too is written in
  states where the first copy is still on the way. `MaxLate` frames per
  direction (1 or 2) may be on their way while time passes: this is how copies and late
  acknowledgements come about. `MqttRequests` has late frames but no lost ones:
  a lost request and one that comes late look the same to the sender.
* Timeouts are 1 to 3 units in place of 5 to 100 seconds: only their order
  matters, and 90 < 100 for a WebSocket, `keep_alive < keep_alive + 10` for
  MQTT is kept. `ResendAttempts` is 2 (3 where the number itself is the subject).
* `MaxRead`, `MaxChunk`: an MQTT read returns one frame or two; a WebSocket read
  returns any part of what is there, in `WsTraffic` up to two frames and a half.
* In `WsLifecycle` payloads have one byte; in `WsTraffic` they have two and reads
  of bytes ask for one or two, so a slice is taken in one or in two parts.
* `SocketSize = 3` with writes of up to 3 bytes and 8 in all: a write can be
  partial, a queue can be written partly, and two queues can be occupied if
  the code allows it.
* In `Loop` three streams are the least with one before and one behind
  the stream in the application's hand, three additions let one be added during a round or
  again, three descriptors let one be reused. One stream (`MCWriters`) has outgoing data:
  the others show what happens without. Data arrives, and is queued, while the
  application has control: in between nobody looks at it.
* `Connect` is called once per stream. `Prompt` is TRUE where a property only holds
  for applications that do what is due within a unit of time.
* `Library`: two calls (`MaxCalls`) or frames (`MaxFrames`) are the least that can run into each other;
  reads of 1 and 3 (or 4) bytes cut every header at every place. `MCCalls` has every packet with
  fields, with and without will and login, and bodies of 127 and 128 bytes; a length of three or four
  digits needs 16 KB and is left to the theorems. Frames of 125, 126 and 128 bytes
  are on both sides of the first border of WebSocket lengths, `MCSampleLengths` of all.
* `MaxLength = 4` with appends of at most 2 and memory of 0, 1 or 3 at first: the data begin behind
  the start of the memory, fill it, and outgrow it. `Second = 4`, `MaxLag = 5`,
  `EndOfTime = 22`: updates are shorter and longer than a second, and several seconds pass. `MaxBody = 4` lets
  a body be written, appended to, and written and parsed again. `CounterSize = 4`
  wraps the count of attempts; `TimeoutBound = 30` is above what three back-offs reach.
* `MaxBlocks = 7` holds a stack of three streams with its buffers, an observer and one or two
  items; `MaxStacks = 1` is one at a time. Three observers in two lists, two records in two slots.
* The inputs of the pure functions are enumerated: all URLs from `MCUrlParts`, all data of up to
  three bytes of four values and lengths up to 330 for base64 (several lines of 64 letters),
  values nested three deep for JSON, messages of two headers, addresses of three or four bits.
* Deadlock is not checked: a connection that is closed and whose application
  does nothing more has stopped legitimately, and so has a helper that nobody calls. Only `Loop` checks it: the select loop
  never stops (a stack beside it may rest).

## 4. Fairness

Liveness is checked under weak fairness of actions the program's scheduling
provides, and nothing of what an application decides for itself.

* `StreamMqtt`, `StreamWs`: the clock (`Tick`), and an application that polls: it reads when
  something has arrived, takes frames that are ready, calls `stream_time`, answers
  requests, and deletes a WebSocket stream that is closing. This is the loop that
  `idler_wait` is made for. There is no fairness for `Publish`, `Connect`, `Disconnect`, `Lose` or
  `Crash`, and none is needed for a crashed peer.
* `StreamStack`: the application serves what the idler reports (`Drain`, `ReadCall`), a
  flush that is in its loop goes on (`FlushStep`), and the peer reads and does
  its part of the handshake (`PeerReads`, `TlsArrives`). The last two are the
  environment: without them nothing can be promised.
* `Idler`: the loop goes round (`StartWait`, `Prepare`, `GetNext`, `Scan`, `Serve`), and `Select`
  is strongly fair: a wait may be interrupted any number of times, but not each one for
  ever. Nothing is assumed of the application's other calls.
* `Library` has no fairness: its properties are safety, and who calls a helper is nobody's promise.

## 5. What is proved

The theorems hold for every value of the constants under the assumptions named
in the modules (and, for the codec, in the theorems): `PeersAssumption`, `IdsAssumption`, `AppAssumption`, `NumbersAssumption`
for MQTT, `FramingAssumption` for its bytes, `WsAssumption` for WebSocket and `WsFramingAssumption` for its bytes, `StackAssumption` for the stack, `IdlerAssumption` for the idler, `JunkAssumption` and
`SizesAssumption` for buffers, `RepeaterAssumption` for the repeater, `ClockAssumption` for the clocks,
`RecordsAssumption` for messages and configurations, `LifeAssumption` for stacks of streams. These say that constants have their
types, that the two peers differ, that timeouts, attempts, reads, socket and writes are not 0, that NULL is neither the number of a block nor a record nor a text, and of a call
that its fields are what its packet can hold.

* **`StreamMqttProofs`: queues** – what removing entries from a queue of frames returns
  (`WithoutType`, `WithoutNothing`, `WithoutEntries`): again a queue of the same kind, the queue itself if nothing
  was to be removed, only entries it had before, and those in their order (`WithoutOrder`). `Without` is defined by
  rank, not with the recursive `SelectSeq`: that is what makes these facts provable
  here. The lemma beneath is that the n-th smallest position exists, from the
  well-foundedness of the naturals.
* **`StreamMqttProofs!TypeCorrect`** – `Spec => []TypeOK`. `TypeOK` is inductive: one step per action,
  and under `HandleReceivedFrame` one per group of packets. That `resend_attempts` stays below
  the limit is part of it.
* **`StreamMqttProofs!ResendTimerWorks`** – the resend timer never runs for an empty `outgoing`. Inductive
  together with `TypeOK`: each handler that can empty the queue stops the timer, and
  each that starts it has put or left a frame in the queue.
* **`MqttDeliveryProofs`** – what happens to a message between two streams, each of which runs all of the code.
  The argument is in two layers.
  *What a step does.* `Wire(q)` is what is on its way to `q`: the frames it has read and those below it.
  For one direction, from the sender `p` to `Other(p)`, `StepKinds` shows that each step of `Next` is one of
  six: nothing of it (`Idle`), a frame is queued and perhaps written (`Submits`), written again or abandoned
  (`Resends`), the receiver takes a PUBLISH (`TakesPublish`) or a PUBREL (`TakesPubrel`), or
  the sender an acknowledgement (`TakesAck`). All the proofs below are about these six and no longer about the code.
  *What they keep.* `LossIsNotSilent` (`Spec => []NoSilentLoss`) needs `SafeInv`: what is in a queue or on its way
  was published (`Genuine`), packet ids name one message (`Identified`), a PUBREL is only written for a message the receiver
  holds (`Released`), an acknowledgement on its way only answers one it holds (`Acknowledged`), and so a message is in
  `outgoing`, abandoned, or held (`Accounted`). `GivenOnce` (`Spec => []ExactlyOnce`) needs `OnceInv`: of a QoS 2
  message, a copy that waits in `inbound`, one handed to the application, and a PUBREL that is still able to release
  it exclude each other in the way `Once` says; `inbound` never holds two frames of one id.
  The way between the peers is a FIFO: a PUBREC behind a PUBCOMP would break it, and `Ahead` says there is none.
* **`MqttDeliveryProofs!DeliveryImplemented`** – `Spec => ClientDelivers`: the two streams implement `MqttDelivery`.
  Initial states map to initial states (`InitEmpty`), and each of the six kinds of step maps to
  one action of `MqttDelivery` or to a stutter (`DeliveryPublishes`, `DeliveryReceives`, `DeliveryCompletes`,
  `DeliveryGivesUp`, `DeliveryStutters`). That a message is not completed twice, nor
  completed after it was given up, needs `CareInv`: as long as a copy of it or an answer to it is on its way, its sender has it
  or its PUBREL in `outgoing` or has abandoned it.
* **`MqttOrderProofs!RequestsAreAnswered`** – `Spec => []RequestsAnswered`. `AskedInv`: a request waits, was
  given up, or was answered to its application; `RequestInv`: an answer on its way has a request that was received behind it.
* **`MqttOrderProofs!PublicationsInOrder`** – `Spec => []InOrder`. Three invariants, each of which needs the one before.
  `FlightInv`: until something is abandoned, only the head of `outgoing` has been written (`Lined`), `resend_attempts` counts
  its writes and the timer runs for it (`Counted`), and the other side knows nothing of what was never written
  (`Fresh`); `FlightIsOne` derives `OneInFlight` from it. `PublishedOnce`: each publication has its own id.
  `LineInv`: of two publications, if the later one is written, the earlier one is through or stands before
  each copy of the later one, on the way and in `inbound` (`InLine`). `ArriveInv` concludes that what the application gets
  is in order. A message of QoS 0 is the hard case: it is written and forgotten when nothing waits, and queued
  when something does.
* **`MqttOrderProofs!AcceptedStaysUp`** – `Spec => []StaysUp` of `StreamMqtt`, if nobody is in `Closers` and `KeepAliveTimeout` is
  above 0: the server waits `keep_alive + MQTT_KEEP_ALIVE_TIMEOUT` for a sign of its client, and with 0 both timers would expire in
  the same unit of time. `UpInv` says more than that no stream is `CLOSING`. Who has connected to whom is settled (`Sided`); before the
  CONNACK only the server's timer may run, at the interval it granted (`Unaccepted`); afterwards a client's timer that runs
  has less left than the server's, unless a PINGREQ is on its way, and a ping that is not answered has its
  PINGREQ or its PINGRESP on its way (`Beating`). Time passes for prompt peers only when nothing is on its way, so that a
  step of time finds neither. A frame that is written restarts the timer of its
  writer, one that is received the timer of a server: most handlers do no more about keep-alive, and one lemma (`QuietUp`) is about all of these.
* **`StreamWsProofs!TypeCorrect`** – `Spec => []TypeOK` of `StreamWs`; the work is in what joins and cuts slices: a
  continuation is joined to the last slice of `cache`, a read of bytes takes the head of the first one.
* **`StreamWsProofs!MessagesArrive`** – `Spec => []MessagesIntact`, if `EarlyData` is FALSE and the server is not `Careless`.
  Whether anyone fragments, speaks out of turn, closes or crashes, and how reads cut the frames, is left open. The
  two hypotheses are how the code wants to be used: what a server writes before it has heard the client is dropped
  (`stream_ws.c:325`), and what a server masks in `stream_ws_write_frame` is not unmasked by a client.
  The argument has two layers. `HandInv` is about the handshake: who has the role of the client (`Roles`); what a server
  that was not asked finds on its way (`ServerWaits`); that to a client without an answer nothing comes before
  it, behind it at most a CLOSE, and that no message was written or received till then (`ClientWaits`); and that no text of a handshake is
  under way when both are connected (`Connected`). `MsgInv` is about the data: what was given to the application and what waits in `cache`,
  continued by the frames in the buffer and on their way, is what the other side has written. Since a frame can be
  cut and a message has many of them, `Carries` says "continued" by a path: the frames `fs` and the
  slices `ss` after each of them, where a complete message does not change any more (`Settled`). A handler takes the
  first step of the path (`HandledEffect`), a writer adds one at its end (`WriteEffect`). A connection
  that is lost leaves what has arrived (`Delivered`). One case has no path: a server that closes at once, whose CLOSE can be
  read in part with the answer to the handshake (`Broken`); but then it has never written a message.
* **`StreamWsProofs!PipesImplemented`** – `Spec => BothPipes`: two streams implement `BytePipe` in each direction, under the hypotheses of
  `MessagesArrive`, for applications that read messages or bytes, in reads of any size. A third hypothesis is the one by which `WsTraffic` keeps
  out the divergence of `WsFragments`: no one whose partner reads bytes is in `Fragmenters`. (`longest` names the
  maximum of `Lengths`, so that `MaxLength` has a value.) A pipe
  delivers bytes, the model slices, and `Bytes` joins them. It numbers the bytes by counting those of the slices in front, and not by
  recursion, so that what one more slice adds is a matter of sums (`BytesBehind`, `MoreBytes`) and needs no induction in its callers. For an application
  that reads messages the pipe follows from `MsgInv`. One that reads bytes cuts the slice at the head of its `cache`, so the slices it
  has read are not those that were sent: `ByteInv` says that there are whole messages `s`, continued by the path of
  `Carries`, whose bytes are those read and those in `cache` (`ByteWay`), so that what was read is the beginning of what was
  written (`BytesRead`). A read moves bytes from one to the other (`CutBytes`), a handler adds a slice to both `cache` and `s` (`HandledBytes`).
* **`StreamWsProofs!ConnectionStaysUp`** – `Spec => []StaysUp` of `StreamWs`, if nobody is in `Closers`, the server is neither `Careless` nor
  one of the `Strangers`, `EarlyData` is FALSE and `ClientTimeout < ServerTimeout`. Each hypothesis excludes a reason to close that is
  none of the timers': a disconnect, a frame a client may not get, a text that is no handshake, bytes dropped with the
  handshake. The intervals are constants of the source, and in that order. `UpInv` has two phases. Until the client
  has its answer no time passes for a server that gave it (`Opening`). Then both ways carry whole frames (`Linked`), so that
  something left in a buffer is less than a frame and its rest is on its way; and `Timing` relates the timers
  as `Beating` does for MQTT.
* **`StreamStackProofs`** – `StackTypeCorrect`, `NothingLost` (`Spec => []Conserved`) and `OneQueueAtATime`
  (`Spec => []OneQueue`), from the invariant
  `IInv == TypeOK /\ OneQueue /\ Gated /\ Conserved`. `Conserved` alone is not inductive: a write
  goes behind `topQueue` if that is occupied, and those bytes are only at the end
  of the stack when nothing can come between; a write that fails in the SSL
  stream is queued above while `baseQueue` must be empty. `OneQueue` says so, and
  `Gated` why: before the handshake of an SSL stream is finished, nothing waits
  in the base stream. The stack is built with or without one (`Init`), and the
  theorems are about both. `SendKeeps` is the fact about sequences that all cases share: what is
  split between socket and base queue is still there in its order; `Grown` is
  what each operation does to the stack, and `CallKeeps` gets `IInv'` from it.

* **`IdlerProofs`** – `IdlerTypeCorrect`, `ListCorrect` (`Spec => []ListLinked`), `NoneServedTwice` and `AllServed` (the
  action properties `ServedOnce` and `ServedAll`), for any number of streams and
  additions. Streams are put in at the head, so the list is in falling order of
  `added`; `ListLinked` says that each link leads to the newest of the streams added
  before, which turns every question about reachability into one about numbers. `IInv` adds that
  a listed stream has a descriptor (`Opened`), that no two have the same stamp
  (`Stamped`), and for a round: what the application holds, also when removed, still links to
  where it would (`HandLinked`), and all that is due and not yet served lies ahead of
  the cursor, all that is served behind it (`Ahead`, `Fresh`). A stream put in at the end
  of the list breaks exactly this, and `ServedOnce`.

* **`LibraryProofs`: buffers** – `BufferCorrect` (`BufferSpec => BufferKeepsBytes`), from `BufferStaysWithinMemory` (`BufferSpec => []WithinMemory`) and
  `BufferImplementsFifo` (`BufferSpec => BufferIsFifo`: the initial state maps to the empty queue and each operation to one of
  the queue or to a stutter). The inductive invariant is `BufferInv`: the buffer is `Sound`, that is, `size` is the
  size of the memory, and what is stored lies in it. Each helper
  (`Rewound`, `Resized`, appending, cutting) has lemmas that it keeps `Sound` and what it does to
  `ContentOf`; an action then is a composition of them.
* **`LibraryProofs`: repeaters** – `RepeaterCorrect` (`RepeaterSpec => RepeaterPaces`), from `RepeaterSpaced` and `RepeaterBacksOff`. `Spaced` is not inductive:
  while the timer runs, what it has left (`Remaining`) and what has been waited must make up what was asked
  for, whatever is set in between.
* **`LibraryProofs`: clocks** – `ClockKeepsTime` (`ClockSpec => []TimersKeepTime`), for every length of a second and any
  time between two updates. `ClockInv` says that each clock shows what had passed when it was updated last (`ClocksRight`), and
  a timer begins with what its clock showed (`TimerBegun`). That the seconds stay right although they are told only of parts of
  a second is `SecondsCarried`: what was left of the last second and what has passed since make up the whole seconds of all of it. `SecondsMeasure`
  turns whole seconds into bounds on milliseconds, from which `NeverEarly` and `NeverLate` follow for a timer of any unit (`TimerMeasured`).
* **`LibraryProofs!RecordsOwnTheirMemory`** – `RecordsSpec => []RecordsIndependent`, for any number of slots, texts and settings. `Kept` adds to the
  property that the fields of a record have no block in common (`Apart`), which it only states as a number, and that finitely many
  blocks are in use, without which `FreeBlocks` would not have to exist (`ThreeAreFree`). Every function fills a slot that
  owns nothing (`FillKeeps`), empties one (`DropKeeps`), or moves what one has to another (`MoveKeeps`).
* **`LibraryProofs!StreamsOwnTheirMemory`** – `LifeSpec => []MemoryOwned` of `StreamLife`, for any number of blocks, stacks and items. The
  pointers make a forest (`Tree`): each block has one owner, a block or the application, and can be reached. A block is hung below
  another (`TreeHangs`), becomes a root (`TreeStarts`) or takes the place of one (`TreeGrowsUp`), or a set that has all it points to is cut
  off (`TreePruned`). The invariant `Owned` adds what a block of each kind can point to (`Form`), that what is at the other end is of the right
  kind (`Targets`), so that what is freed with a stream owns nothing that is not, and that an object does not point twice to the same block
  (`Distinct`), without which an item that leaves one queue could stay in another. The destructor frees all that a stream points to but the stream below
  (`DestroyedIs`), for each kind by its own function; that the survivors do not point there holds since there is one owner (`DeleteKeeps`).
* **`FramingProofs`: packets** – `MqttFraming` checks some packets; these theorems are about all. `LengthComesBack`:
  a remaining length of up to four digits is decoded to itself and its size, whatever bytes follow
  (`LengthIncomplete`: a part of it is asked for again). `FrameFound`: a frame is found with its type,
  flags, bounds and body at the head of a buffer with any rest. `IdComesBack`, `SubscribeComesBack`,
  `PublishComesBack`, `ConnectComesBack`: the parser returns the arguments of the writer, and the
  packet has the size announced. The argument is by offsets: a field written between `pre` and
  `rest` is found at `Len(pre)` and the next one begins behind it (`ShortAt`, `StringAt`, `OptionalAt`). The
  hypotheses are the limits of the code: texts and payloads of less than 64 KB, ids of two bytes;
  for CONNECT that a will has a topic and a message, and that will message and password are
  not empty, since sizes go by lengths and fields by pointers (`mqtt.c:266`).
* **`FramingProofs!PacketsComeThrough`** – `FramingSpec => []PacketsArrive`, for any number of calls, sizes of reads and
  malformed bytes. `FramingAssumption` says what a call can be (`PossibleCalls`): the hypotheses just named, for
  each type of packet. `PacketsArrive` says nothing of bytes that nobody has read yet, so it is not inductive. `FramingInv`
  adds where they are: `Pending`, the buffer with what is on its way, begins with the packets that are `Due` and not yet handled,
  one behind the other at the cuts of `Laid`, and without malformed bytes it ends with the last of them. A call puts a cut
  at the end (`LaidMore`), bytes behind the last cut change none (`LaidGrows`), and a frame that is handled takes the first
  away (`LaidNext`). That the loop finds exactly that frame has two halves. At the head of `Pending` the packet of the next call is
  found (`CallFound`, from `FrameFound` and, for each type, that its writer and its parser agree: `CallsReadable`). But the parser
  sees the buffer only, a beginning of `Pending`: `FrameStable` says that what it finds there, or refuses, is what it would
  find in all of it, since a length in parts is not taken for a length (`LengthStable`).
* **`FramingProofs!WsFramesComeThrough`** – `WsSpec => []WsFramesArrive`, for any frames, reads and lengths. `WsFramingAssumption`
  says what a frame can be (`PossibleFrames`): any opcode, any mask of four bytes or none, any payload shorter than 2^31 bytes. Masking
  twice is nothing, bit by bit (`XorTwice`, `MaskTwice`), and a length of each of the three classes is read as it was written
  (`WsLengthComesBack`, `HeaderComesBack`). `FrameRead` says what the first k bytes of a frame tell the parser: that it is complete
  exactly if all are there, and otherwise that more are needed, but no more than the frame has. That gives both
  parts of the property, the one about single lengths (`LengthsDecoded`) and the one about the loop (`FrameComesBack`). As with
  `PacketsArrive`, the second needs an invariant about bytes nobody has read: in `WsInv` the buffer with what is on its way
  (`WsPending`) begins with the frames not yet taken, at the cuts of the same `Laid`, and ends with the last; those taken are
  right; and the loop has stopped only if no frame is complete in the buffer.

Only model-checked: liveness (`EveryoneRead`, `DeadPeerNoticed` and the like), since neither fairness nor ENABLED is in the
provers' reach; and what is not listed here of `Library`: the helpers
on texts and lists (`HttpMessage`, `Url`, `Base64`, `Json`, `Strings`, `ObserverList`, `NetInterfaces`), which compute
recursively, which is out of the provers' reach.

## 6. Where the code and its documents disagree

Five have a run that ends in a counterexample of a few steps.

| Run | What happens |
|---|---|
| `MqttAttempts` | The frame behind an acknowledged one is written with the attempts its predecessor used (`stream_mqtt.c:833` does not reset `resend_attempts`) and is abandoned after fewer than MQTT_RESEND_ATTEMPTS writes. |
| `MqttNoKeepAlive` | With `keep_alive` 0 an accepting CONNACK leaves the client's stream in STREAM_ST_INIT. |
| `WsFragments` | A message of two frames that is read as bytes between them: its slice is deleted when drained, and the continuation finds no slice and is dropped. |
| `WsEndOfFile` | `stream_ws_do_read` tells an end of file from "nothing yet" by an `errno` that an earlier call has left: the application is never told. |
| `HttpBody` | `http_msg_serialize` appends a zero to the body of the message (`http.c:386`) and prints up to the first one: what is appended afterwards is never sent. The test that does this (`test_http.c:82`) compares with a function that stops at the zero. `MessageKept` passes, since it asks for what was appended before. |

More are steps of the models, without a run of their own:

* A QoS 0 publication that finds others waiting joins `outgoing`
  (`stream_mqtt.c:680`), is resent until abandoned, and is received several times.
  It is in `MqttQos`: `MqttDelivery` promises a single copy for QoS 2 only.
* `http_header_find` gives up at a header whose name begins with the one it looks for (`http.c:91`): one behind
  it is not found, though it was added like those that the tests find. `MessageKept` exempts such a header, and only it.
* A CONNACK, received or sent, makes a closing stream ready again
  (`stream_mqtt.c:346` and `642`).
* `buffer_reset` after the WebSocket handshake (`stream_ws.c:325`) deletes frames
  that arrived in the same read. With `EarlyData = TRUE` TLC finds `MessagesIntact`
  violated; in the runs, a server waits until it has heard the client.
* An empty message is read with the result 0 (`stream_ws.c:449`), which elsewhere
  means disconnect. In the runs messages are not empty.
* The comment of `clock_update` (`timer.c:17`) describes the wrap of an unsigned counter of 32 bits; the
  counters are signed and as wide as `time_t`, and `timer_value` is a plain subtraction. `Clock` models the code.
* A CONNECT with a will topic and no will message, or with an empty password, is announced with another size than it is
  written (`mqtt.c:266`): sizes go by lengths, fields by pointers. `MCCalls` has neither, and `ConnectComesBack` excludes both.
* `mqtt_conf_move` and `mqtt_conf_clean` leave `password_len` behind (`mqtt.c:983`), with no password. `MqttRecords` does the
  same; no property is about the length.
* `repeater_reset` leaves the timeout as long as the back-offs have made it (`repeater.c:27`).
* An MQTT payload of 64 KB or more is announced whole and written cut (`mqtt.c:696`).

The passing runs keep these cases out by what the applications do, never by
a changed definition: in `WsTraffic` the application that fragments its messages
writes to one that reads messages, and the one that reads bytes gets whole ones.
`InOrder` is stated for the time until something is
abandoned: after that the promise is `ExactlyOnce` and `NoSilentLoss`.

## 7. What is not modelled

* OpenSSL's records and errors, and the flush OpenSSL asks for in the handshake:
  library internals. A reset connection or EPIPE is a broken socket in `StreamStack` only;
  `StreamMqtt` and `StreamWs` know a peer that is silent or gone.
* Half a handshake text (section 2); in the framing modules, packets that are too short for their fields
  (the results of the parsers are ignored, and the fields hold what memory held); control frames
  with a payload.
* `ws_calculate_accept_key`, which is base64 (modelled) of SHA-1 (vendored, `sha1.c`).
* The memory of the texts of `HttpMessage`, and `http_msg` copies; `string.c` where it only duplicates or wraps `strtol`;
  `json.c` where it hands a value to the JSON library; the formatting of addresses in `net.c`, and
  its iterator of names, which its one user stops at the end.
* A stream that is deleted by an observer it is calling: the code goes on using it (`stream_mqtt.c:312`), and
  in `StreamLife` a stream is deleted only when the handler that calls its observer has returned (the guard of `DeleteStream`).
* An observer of `StreamMqtt` that reads its stream from inside: the frame it was called for is cut from the buffer only
  behind its handler (`stream_mqtt.c:525`), so it would be handled again and bytes of the next one cut with it. `Read` waits for an
  empty buffer; whatever else an observer may call, it may call in the model. Nothing in the repository sets such an observer.
* In `Clock`, the jump of the clocks at the first `clock_update_sys`: the system's clock may show anything then, here it has
  started at 0 with the program. It matters for a timer that was started before, without TIMER_UPDATE. A calendar timer that was started before the
  calendar was known is in the model, and exempted from `NeverEarly` and `NeverLate` (`Uprooted`).
* In `ObserverList` the lists are sequences: what LIST_REMOVE does to the links of the neighbours is checked in `Idler`.
* URLs whose parts contain what another part begins with: lengths become negative (`url.c:121`).
* The random devices behind `rand.c`: a random number is any number.
* A second `Connect` on a stream; a packet id reused for a second message.
* Allocation failure: `xmalloc` ends the program.
* `socket.c`, `log.c`, `ssl.c`, `memory.c`: wrappers of system and library calls with no state of their own.
* `tree.h` and the rest of `queue.h` and `list.h`: BSD code, modelled where used.

## 8. Plan

Done, in this order: `StreamMqtt` with its proofs, `StreamStack` with its proofs, `StreamWs`,
`Idler` with its proofs, the helpers of `Library`, of which `Buffer`, `Repeater`, `Clock` and
`MqttCodec` have proofs, as the ownership of memory by records and by stacks has, the proofs about delivery, requests, order and keep-alive of `StreamMqtt`, and those about
types, messages, bytes and keep-alive of `StreamWs`, and that the packets of `MqttFraming` and the frames of `WsFraming` come through.

Models to add: `StreamWs` with early data handled as the code does, once it is decided what it should do;
the iterators of `net.c` when they have more users.
