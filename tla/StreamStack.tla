---------------------------- MODULE StreamStack ----------------------------
(***************************************************************************)
(* Writing through a stack of streams (stream.c): the top stream, which    *)
(* the application writes, decorates the base stream, which has the file   *)
(* descriptor.  When the stack is built, an SSL stream (stream_ssl.c) may  *)
(* be put between them: nothing passes it until its handshake is finished. *)
(*                                                                         *)
(* Each stream keeps what it could not pass on in its outgoing queue (the  *)
(* SSL stream never does).  Bytes are numbered in the order in which the   *)
(* application offers them; the slices of a queue are joined, because the  *)
(* loops over them only end where the socket stops taking bytes.  The      *)
(* records of TLS and its encryption are left out, and with them the flush *)
(* that OpenSSL asks for during the handshake.                             *)
(***************************************************************************)
EXTENDS Integers, Sequences

CONSTANTS
    MaxOffered,     \* bound on the bytes that the application offers
    MaxLength,      \* bound on the bytes of one write
    SocketSize,     \* bytes that fit in the socket
    Breaks          \* TRUE: the peer may go away

ASSUME StackAssumption ==
    /\ Breaks \in BOOLEAN
    /\ MaxOffered \in Nat /\ MaxLength \in Nat \ {0} /\ SocketSize \in Nat \ {0}

VARIABLES
    topQueue, baseQueue,    \* the outgoing queues
    tls,            \* handshake: "pending", "arrived" (its last flight),
                    \* "finished", or "none" without an SSL stream
    flushing,       \* the stream that stream_flush is busy with, or "no"
    flushed,        \* what the last stream_flush returned: 0, 1 or -1
    offered,        \* bytes that the application has offered
    accepted,       \* those for which stream_write reported success
    socket,         \* bytes the kernel has and the peer has not read
    received,       \* bytes the peer has read
    broken          \* write() fails

stackVars == <<topQueue, baseQueue, tls, flushing, flushed, offered, accepted,
          socket, received, broken>>

StackInit ==
    /\ topQueue = <<>> /\ baseQueue = <<>>
    /\ tls \in {"none", "pending"}
    /\ flushing = "no" /\ flushed = 1
    /\ offered = 0 /\ accepted = <<>>
    /\ socket = <<>> /\ received = <<>>
    /\ broken = FALSE

-----------------------------------------------------------------------------
(* The socket and the two streams below the top.                           *)

SocketRoom == SocketSize - Len(socket)

\* How many of n bytes write() takes; 0 stands for EAGAIN.
Takes(n) ==
    IF broken \/ n = 0 \/ SocketRoom = 0 THEN {0}
    ELSE 1 .. (IF n < SocketRoom THEN n ELSE SocketRoom)

\* The socket takes the first k bytes of d; what is left of d and rest wait in
\* the base stream.
SendFirst(k, d, rest) ==
    /\ socket' = socket \o SubSeq(d, 1, k)
    /\ baseQueue' = SubSeq(d, k + 1, Len(d)) \o rest

\* An SSL stream lies between top and base.
Secure == tls # "none"

\* Nothing is in the way between top and base.
Through == tls \in {"none", "finished"}

\* stream_do_write of the base stream fails: nothing waits and write() fails.
BaseFails == broken /\ baseQueue = <<>>

\* An SSL stream reports the failure below it as 0.  Mutation: so does write().
ReportedByNobody == BaseFails

ReportedAsNothing == BaseFails /\ Secure

\* stream_ssl_do_handshake: TRUE when OpenSSL has what it needs.  Mutation: it
\* is not called by stream_ssl_do_write.
HandshakeOnlyInRead == Through

HandshakeDone == Through \/ tls = "arrived"

\* After a call that has gone through the SSL stream.
TlsAfter == IF tls = "arrived" /\ HandshakeDone THEN "finished" ELSE tls

-----------------------------------------------------------------------------
(* Calls of the application.                                               *)

\* Mutation of MustQueue: the queue is not looked at.
NeverQueue(queue) == FALSE

\* stream_do_write, of either stream, may not overtake what waits in its queue.
MustQueue(queue) == queue # <<>>

\* What goes through, and what fails, in stream_do_write of the top stream.
\* Bytes that failed with the result 0 are queued and count as written.
PassOn(d) ==
    /\ tls' = TlsAfter
    /\ \/ /\ HandshakeDone /\ ~BaseFails
          /\ IF MustQueue(baseQueue)
             THEN SendFirst(0, baseQueue, d)
             ELSE \E k \in Takes(Len(d)) :
                    /\ socket' = socket \o SubSeq(d, 1, k)
                    /\ baseQueue' = baseQueue \o SubSeq(d, k + 1, Len(d))
          /\ accepted' = accepted \o d
          /\ UNCHANGED topQueue
       \/ /\ ~HandshakeDone \/ ReportedAsNothing
          /\ topQueue' = topQueue \o d
          /\ accepted' = accepted \o d
          /\ UNCHANGED <<baseQueue, socket>>
       \/ /\ BaseFails /\ ~ReportedAsNothing
          /\ UNCHANGED <<topQueue, baseQueue, socket, accepted>>

\* stream_write of the top stream, n bytes.
Write(n) ==
    LET d == [i \in 1..n |-> offered + i]
    IN  /\ flushing = "no"
        /\ offered + n <= MaxOffered
        /\ offered' = offered + n
        /\ IF MustQueue(topQueue)
           THEN /\ topQueue' = topQueue \o d
                /\ accepted' = accepted \o d
                /\ UNCHANGED <<baseQueue, socket, tls>>
           ELSE PassOn(d)
        /\ UNCHANGED <<flushing, flushed, received, broken>>

\* How much of the top queue the loop of stream_handle_outgoing_data passes on.
\* Mutation: one write only.
MovedOnce == IF topQueue = <<>> THEN 0 ELSE 1

Moved == Len(topQueue)

\* What stream_handle_outgoing_data may return.
Returns == -1 .. MaxOffered

\* What the base stream may return when it has written j bytes of its queue: -1
\* also after whole slices, when the write of the next one takes nothing.
BaseReturns(j) ==
    IF baseQueue = <<>> THEN {0}
    ELSE IF j = 0 THEN {-1}
    ELSE IF j < Len(baseQueue) THEN {-1, j}
    ELSE {j}

\* stream_handle_outgoing_data returns ret: first the base stream writes j bytes
\* of its queue, then the top stream passes its own queue on, and k bytes of
\* that get as far as the socket.
HandleOutgoing(ret) ==
    \E j \in Takes(Len(baseQueue)) :
        LET left == Len(baseQueue) - j
            room == IF SocketRoom - j < Moved THEN SocketRoom - j ELSE Moved
        IN  \/ /\ topQueue # <<>> /\ HandshakeDone /\ ~BaseFails
               /\ \E k \in (IF left > 0 \/ room = 0 \/ broken THEN {0} ELSE 1..room) :
                    SendFirst(j + k, baseQueue \o SubSeq(topQueue, 1, Moved), <<>>)
               /\ topQueue' = SubSeq(topQueue, Moved + 1, Len(topQueue))
               /\ tls' = TlsAfter
               /\ \E below \in BaseReturns(j) : ret = below + Moved
            \/ /\ topQueue # <<>> /\ (~HandshakeDone \/ BaseFails)
               /\ SendFirst(j, baseQueue, <<>>)
               /\ tls' = TlsAfter
               /\ ret = IF broken THEN 0 ELSE -1
               /\ UNCHANGED topQueue
            \/ /\ topQueue = <<>>
               /\ SendFirst(j, baseQueue, <<>>)
               /\ ret \in BaseReturns(j)
               /\ UNCHANGED <<topQueue, tls>>

\* Mutation of HasOutgoing: only the stream itself is asked.
OnlyOwnData == topQueue # <<>> /\ Through

\* stream_has_outgoing_data: what waits behind a handshake does not count.
HasOutgoing == (topQueue # <<>> /\ Through) \/ baseQueue # <<>>

\* The idler has found the stream ready for writing.
Drain ==
    /\ flushing = "no"
    /\ HasOutgoing /\ (SocketRoom > 0 \/ broken)
    /\ \E ret \in Returns : HandleOutgoing(ret)
    /\ UNCHANGED <<flushing, flushed, offered, accepted, received, broken>>

\* The application reads because the socket is readable; the SSL stream takes
\* the opportunity to go on with its handshake.
ReadCall ==
    /\ flushing = "no" /\ tls = "arrived"
    /\ tls' = "finished"
    /\ UNCHANGED <<topQueue, baseQueue, flushing, flushed, offered, accepted,
                   socket, received, broken>>

-----------------------------------------------------------------------------
(* stream_flush does not return until everything is written.               *)

StartFlush ==
    /\ flushing = "no"
    /\ flushing' = "top"
    /\ UNCHANGED <<topQueue, baseQueue, tls, flushed, offered, accepted,
                   socket, received, broken>>

\* One turn of the loop of stream_do_flush, for the stream with this queue: it
\* stops for good when nothing was written, unless that was for EAGAIN.
FlushTurn(stream, queue) ==
    /\ flushing = stream /\ queue # <<>>
    /\ \E ret \in Returns :
         /\ HandleOutgoing(ret)
         /\ IF ret = 0 \/ (ret < 0 /\ broken)
            THEN flushing' = "no" /\ flushed' = ret
            ELSE UNCHANGED <<flushing, flushed>>
    /\ UNCHANGED <<offered, accepted, received, broken>>

\* The end of that loop: the stream below is flushed, or everything is written.
FlushBelow ==
    /\ \/ flushing = "top" /\ topQueue = <<>> /\ flushing' = "base" /\ UNCHANGED flushed
       \/ flushing = "base" /\ baseQueue = <<>> /\ flushing' = "no" /\ flushed' = 1
    /\ UNCHANGED <<topQueue, baseQueue, tls, offered, accepted, socket, received, broken>>

FlushStep == FlushTurn("top", topQueue) \/ FlushTurn("base", baseQueue) \/ FlushBelow

-----------------------------------------------------------------------------
(* The peer and the network.                                               *)

\* The last flight of the peer's handshake arrives.
TlsArrives ==
    /\ tls = "pending" /\ ~broken
    /\ tls' = "arrived"
    /\ UNCHANGED <<topQueue, baseQueue, flushing, flushed, offered, accepted,
                   socket, received, broken>>

PeerReads ==
    /\ socket # <<>>
    /\ received' = received \o socket
    /\ socket' = <<>>
    /\ UNCHANGED <<topQueue, baseQueue, tls, flushing, flushed, offered, accepted, broken>>

\* The peer goes away: what the socket holds is lost with it.
Break ==
    /\ Breaks /\ ~broken
    /\ broken' = TRUE
    /\ UNCHANGED <<topQueue, baseQueue, tls, flushing, flushed, offered, accepted,
                   socket, received>>

StackNext ==
    \/ \E n \in 1..MaxLength : Write(n)
    \/ Drain \/ ReadCall \/ StartFlush \/ FlushStep
    \/ TlsArrives \/ PeerReads \/ Break

StackSpec == StackInit /\ [][StackNext]_stackVars

\* The application serves what its idler reports, a flush goes on by itself, and
\* the peer reads and does its part of the handshake.
StackFairness ==
    /\ WF_stackVars(Drain) /\ WF_stackVars(ReadCall) /\ WF_stackVars(FlushStep)
    /\ WF_stackVars(TlsArrives) /\ WF_stackVars(PeerReads)

StackFairSpec == StackSpec /\ StackFairness

-----------------------------------------------------------------------------
(* Properties.                                                             *)

(* Every variable keeps its type, the socket never holds more than it can,  *)
(* and without an SSL stream nothing stays in the queue of the top stream:  *)
(* a failed write of the base stream is reported, not queued.               *)
StackTypeOK ==
    /\ topQueue \in Seq(Nat) /\ baseQueue \in Seq(Nat)
    /\ tls \in {"none", "pending", "arrived", "finished"}
    /\ flushing \in {"no", "top", "base"} /\ flushed \in {-1, 0, 1}
    /\ offered \in 0..MaxOffered /\ accepted \in Seq(Nat)
    /\ socket \in Seq(Nat) /\ Len(socket) <= SocketSize
    /\ received \in Seq(Nat) /\ broken \in BOOLEAN
    /\ Secure \/ topQueue = <<>>

(* What stream_write has accepted is, in its order and without gap, what    *)
(* the peer has read, the socket holds and the two queues hold: no write    *)
(* overtakes what waits, and no partial write drops or repeats a byte.      *)
Conserved == received \o socket \o baseQueue \o topQueue = accepted

(* At most one of the two queues has something in it, on which the sum that *)
(* stream_handle_outgoing_data returns relies: -1 from below plus one byte  *)
(* from above would be 0, which ends a flush.                               *)
OneQueue == topQueue = <<>> \/ baseQueue = <<>>

(* stream_flush returns 1 when everything is written, and on a connection   *)
(* that is not broken it does not return before.                            *)
FlushedAll ==
    [][flushing # "no" /\ flushing' = "no" /\ ~broken
         => flushed' = 1 /\ topQueue' = <<>> /\ baseQueue' = <<>>]_stackVars

(* What was accepted reaches the peer or the connection is broken: when the *)
(* socket takes bytes again, or the handshake ends in a read,               *)
(* stream_has_outgoing_data reports what waits, wherever in the stack.      *)
AllArrives == [](accepted # received => <>(broken \/ accepted = received))

(* stream_flush returns, although no other call can advance the handshake   *)
(* it waits for.                                                            *)
FlushEnds == flushing # "no" ~> flushing = "no"

(* stream_flush returns, and not before everything is written: its loop      *)
(* neither goes on for ever behind a handshake nor ends on a sum of 0 with   *)
(* data in a queue.                                                          *)
FlushCompletes == FlushEnds /\ FlushedAll

=============================================================================
