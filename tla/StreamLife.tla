----------------------------- MODULE StreamLife -----------------------------
(***************************************************************************)
(* Who owns what in a stack of streams: the blocks of memory that the      *)
(* constructors, the queues, the observers and the handshake of            *)
(* stream.c, stream_ssl.c, stream_ws.c, stream_mqtt.c and observer.c       *)
(* allocate, and what the destructor of the top stream frees.              *)
(*                                                                         *)
(* The contents of the blocks are left out.  A buffer's memory is one      *)
(* block, whether or not it has grown, and so are the SSL object and its   *)
(* BIO, which SSL_free() frees together.                                   *)
(***************************************************************************)
EXTENDS Bytes, FiniteSets

CONSTANTS
    MaxBlocks,      \* bound on the blocks allocated at one time
    MaxItems,       \* bound on the items of a queue
    MaxStacks       \* bound on the stacks that exist at one time

VARIABLES
    heap,           \* what each allocated block holds
    roots           \* the streams that the application holds

lifeVars == <<heap, roots>>

ASSUME LifeAssumption == MaxBlocks \in Nat /\ NULL \notin Nat

\* The queues a stream of each kind has: every stream has the first.  The last of
\* mqtt is a variable of the handler of a PUBREL: the item that is out of inbound
\* while an observer is called for it.
QueuesOf ==
    [base |-> {"outgoing"}, ssl |-> {"outgoing"}, ws |-> {"outgoing", "cache"},
     mqtt |-> {"outgoing", "incoming", "pending", "inbound", "released"}]

Queues == UNION {QueuesOf[k] : k \in DOMAIN QueuesOf}

Kinds == DOMAIN QueuesOf

\* The pointers of all kinds of blocks; "extra" is ssl or the key, "listener" the
\* mqtt_observer.
Object(kind) ==
    [kind |-> kind, decorated |-> NULL, observer |-> NULL, listener |-> NULL,
     buffer |-> NULL, extra |-> NULL, queues |-> [q \in Queues |-> <<>>]]

SinglePointers == {"decorated", "observer", "listener", "buffer", "extra"}

Queued(o) == UNION {{o.queues[q][i] : i \in DOMAIN o.queues[q]} : q \in Queues}

PointersOf(o) == ({o[f] : f \in SinglePointers} \ {NULL}) \cup Queued(o)

InUse == DOMAIN heap

Streams == {b \in InUse : heap[b].kind \in Kinds}

Room(n) == MaxBlocks - Cardinality(InUse) >= n

\* The block that the i-th allocation from here on returns: the lowest that is free,
\* so that what was freed is soon used again.
NewBlock(i) ==
    CHOOSE b \in (1..MaxBlocks) \ InUse :
        Cardinality({c \in (1..b - 1) \ InUse : TRUE}) = i - 1

With(h, b, o) == [c \in DOMAIN h \cup {b} |-> IF c = b THEN o ELSE h[c]]

FreedIn(h, blocks) == [b \in DOMAIN h \ blocks |-> h[b]]

\* A stream, and all it decorates: what is in each set of streams that has s and,
\* with each stream, the one below it.
InStack(s) ==
    {b \in Streams : \A S \in SUBSET Streams :
        s \in S /\ (\A c \in S : heap[c].decorated # NULL => heap[c].decorated \in S) => b \in S}

-----------------------------------------------------------------------------
(* Constructors.                                                           *)

LifeInit == heap = <<>> /\ roots = {}

\* stream_new
NewStream ==
    /\ Cardinality(roots) < MaxStacks /\ Room(1)
    /\ heap' = With(heap, NewBlock(1), Object("base"))
    /\ roots' = roots \cup {NewBlock(1)}

\* stream_ssl_new, stream_ws_new, stream_mqtt_new: the application gives away the
\* stream that is decorated.
Decorate(root, kind) ==
    /\ root \in roots /\ heap[root].kind # "mqtt" /\ Room(2)
    /\ LET self   == [Object(kind) EXCEPT !.decorated = root]
           filled == IF kind = "ssl" THEN [self EXCEPT !.extra = NewBlock(2)]
                                     ELSE [self EXCEPT !.buffer = NewBlock(2)]
       IN  heap' = With(With(heap, NewBlock(1), filled), NewBlock(2), Object("memory"))
    /\ roots' = (roots \ {root}) \cup {NewBlock(1)}

-----------------------------------------------------------------------------
(* What the queues keep.  Each item owns the memory of its buffer.         *)

\* The handler of received frames of s is not waiting for an observer to return.
HandlerReturned(s) == heap[s].queues["released"] = <<>>

\* stream_queue_outgoing_data, stream_mqtt_append_frame and _insert_frame, and the
\* slice of a data frame
Enqueue(s, q, first) ==
    /\ q \in QueuesOf[heap[s].kind] \ {"released"}
    /\ Len(heap[s].queues[q]) < MaxItems /\ Room(2)
    /\ first => q = "pending"
    /\ q \in {"incoming", "inbound"} => HandlerReturned(s)
    /\ LET item  == [Object("item") EXCEPT !.buffer = NewBlock(2)]
           queue == IF first THEN <<NewBlock(1)>> \o heap[s].queues[q]
                             ELSE Append(heap[s].queues[q], NewBlock(1))
       IN  heap' = With(With([heap EXCEPT ![s].queues[q] = queue], NewBlock(1), item),
                        NewBlock(2), Object("memory"))
    /\ UNCHANGED roots

\* buffer_slice_delete, ws_frame_slice_delete, mqtt_frame_item_delete
ItemBlocks(i) == {i, heap[i].buffer}

\* The i-th item of a queue is unlinked and deleted.
DeleteItem(s, q, i) ==
    LET queue == heap[s].queues[q]
    IN  heap' = FreedIn([heap EXCEPT ![s].queues[q] = Front(queue, i - 1) \o Rest(queue, i)],
                        ItemBlocks(queue[i]))

\* It is unlinked, and put at the end of another queue as it is.
MoveItem(s, from, to, i) ==
    LET queue == heap[s].queues[from]
    IN  heap' = [heap EXCEPT ![s].queues[from] = Front(queue, i - 1) \o Rest(queue, i),
                             ![s].queues[to] = Append(@, queue[i])]

\* An item that was sent, read by the application, answered, replaced or abandoned.
Dequeue(s, q) ==
    /\ q # "released" /\ (q = "inbound" => HandlerReturned(s))
    /\ \E i \in DOMAIN heap[s].queues[q] :
        /\ q \in {"outgoing", "cache", "incoming"} => i = 1
        /\ DeleteItem(s, q, i)
    /\ UNCHANGED roots

\* A PUBREL takes the message out of its queue, and its observer is called.
Release(s) ==
    /\ HandlerReturned(s)
    /\ \E i \in DOMAIN heap[s].queues["inbound"] : MoveItem(s, "inbound", "released", i)
    /\ UNCHANGED roots

\* Mutation of Released: what an observer has handled is not deleted.
ReleasedUndeleted(s) ==
    /\ ~HandlerReturned(s)
    /\ \/ heap' = [heap EXCEPT ![s].queues["released"] = <<>>]
       \/ Len(heap[s].queues["incoming"]) < MaxItems /\ MoveItem(s, "released", "incoming", 1)
    /\ UNCHANGED roots

\* The observer has returned, or there is none: the message is deleted if it was
\* handled, and otherwise waits for the application.
Released(s) ==
    /\ ~HandlerReturned(s)
    /\ \/ DeleteItem(s, "released", 1)
       \/ Len(heap[s].queues["incoming"]) < MaxItems /\ MoveItem(s, "released", "incoming", 1)
    /\ UNCHANGED roots

QueueBlocks(s, q) ==
    UNION {ItemBlocks(heap[s].queues[q][i]) : i \in DOMAIN heap[s].queues[q]}

\* stream_reset_outgoing_data, of a stream that is part of a stack or its top
ResetOutgoingData(s) ==
    /\ heap' = FreedIn([b \in InUse |-> IF b \in InStack(s)
                                          THEN [heap[b] EXCEPT !.queues["outgoing"] = <<>>]
                                          ELSE heap[b]],
                     UNION {QueueBlocks(b, "outgoing") : b \in InStack(s)})
    /\ UNCHANGED roots

-----------------------------------------------------------------------------
(* Observers, and the key of a WebSocket client.                           *)

\* stream_set_observer, stream_mqtt_set_observer: no effect when there is one.
SetObserver(s, field) ==
    /\ heap[s][field] = NULL /\ Room(1)
    /\ heap' = With([heap EXCEPT ![s][field] = NewBlock(1)], NewBlock(1), Object("memory"))
    /\ UNCHANGED roots

\* Mutation of RemoveObserver: the pointer to the observer stays.
RemoveObserverOnly(s, field) ==
    /\ heap[s][field] # NULL
    /\ heap' = FreedIn(heap, {heap[s][field]})
    /\ UNCHANGED roots

\* stream_remove_observer, stream_mqtt_remove_observer
RemoveObserver(s, field) ==
    /\ heap[s][field] # NULL
    /\ heap' = FreedIn([heap EXCEPT ![s][field] = NULL], {heap[s][field]})
    /\ UNCHANGED roots

\* stream_ws_connect, once for each stream: a second key would take the place of the
\* first.
MakeKey(s) ==
    /\ heap[s].kind = "ws" /\ heap[s].extra = NULL /\ Room(1)
    /\ heap' = With([heap EXCEPT ![s].extra = NewBlock(1)], NewBlock(1), Object("memory"))
    /\ UNCHANGED roots

\* The server has accepted: the key is not needed anymore.
DropKey(s) ==
    /\ heap[s].kind = "ws" /\ heap[s].extra # NULL
    /\ heap' = FreedIn([heap EXCEPT ![s].extra = NULL], {heap[s].extra})
    /\ UNCHANGED roots

-----------------------------------------------------------------------------
(* Destructors.                                                            *)

\* stream_clean without the decorated stream
StreamClean(s) == QueueBlocks(s, "outgoing") \cup ({heap[s].observer} \ {NULL})

\* stream_ssl_clean
SslClean(s) == {heap[s].extra} \ {NULL}

\* stream_ws_clean
WsClean(s) == {heap[s].buffer} \cup ({heap[s].extra} \ {NULL}) \cup QueueBlocks(s, "cache")

\* Mutation of MqttClean: what the peer has not released is forgotten.
MqttCleanTwoQueues(s) ==
    {heap[s].buffer} \cup ({heap[s].listener} \ {NULL})
    \cup UNION {QueueBlocks(s, q) : q \in {"incoming", "pending"}}

\* stream_mqtt_clean
MqttClean(s) ==
    {heap[s].buffer} \cup ({heap[s].listener} \ {NULL})
    \cup UNION {QueueBlocks(s, q) : q \in {"incoming", "pending", "inbound"}}

\* What the destructor of s frees, the decorated stream left aside.
Destroyed(s) ==
    {s} \cup StreamClean(s) \cup
    (CASE heap[s].kind = "base" -> {}
       [] heap[s].kind = "ssl"  -> SslClean(s)
       [] heap[s].kind = "ws"   -> WsClean(s)
       [] heap[s].kind = "mqtt" -> MqttClean(s))

\* stream_delete of the top stream, which an observer does not do that it is calling.
DeleteStream(root) ==
    /\ root \in roots /\ \A s \in InStack(root) : HandlerReturned(s)
    /\ heap' = FreedIn(heap, UNION {Destroyed(s) : s \in InStack(root)})
    /\ roots' = roots \ {root}

LifeNext ==
    \/ NewStream
    \/ \E root \in roots :
        DeleteStream(root) \/ \E kind \in Kinds \ {"base"} : Decorate(root, kind)
    \/ \E s \in Streams :
        \/ \E q \in Queues, first \in BOOLEAN : Enqueue(s, q, first)
        \/ \E q \in Queues : Dequeue(s, q)
        \/ Release(s) \/ Released(s) \/ ResetOutgoingData(s) \/ MakeKey(s) \/ DropKey(s)
        \/ \E field \in {"observer"} \cup (IF heap[s].kind = "mqtt" THEN {"listener"} ELSE {}) :
            SetObserver(s, field) \/ RemoveObserver(s, field)

LifeSpec == LifeInit /\ [][LifeNext]_lifeVars

-----------------------------------------------------------------------------
(* Properties.                                                             *)

\* No pointer leads to a block that was freed, and no block has two owners, so that
\* none is used after it is freed or freed twice.
NothingDangles ==
    /\ \A b \in InUse : PointersOf(heap[b]) \subseteq InUse \ {b}
    /\ roots \subseteq InUse
    /\ \A b, c \in InUse : b # c => PointersOf(heap[b]) \cap PointersOf(heap[c]) = {}
    /\ \A b \in InUse : PointersOf(heap[b]) \cap roots = {}

\* Whatever is allocated can still be reached, and so deleted, by the application,
\* since nothing less has its streams and all that their pointers lead to: when it
\* has deleted its streams nothing is left.
NothingLost ==
    NothingDangles =>
        \A S \in SUBSET InUse :
            roots \subseteq S /\ (\A b \in S : PointersOf(heap[b]) \subseteq S) => S = InUse

\* Every block is owned, once and by something that is there, from its allocation
\* to the destructor that frees it.
MemoryOwned == NothingDangles /\ NothingLost

=============================================================================
