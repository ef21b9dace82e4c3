------------------------------- MODULE Idler -------------------------------
(***************************************************************************)
(* The select loop (idler.c): the list of streams, kept by the macros of   *)
(* queue.h with the links in the streams; idler_wait, which asks select    *)
(* about them; and the iterator over those that need attention, between    *)
(* whose calls the application adds, removes and deletes streams.          *)
(*                                                                         *)
(* The loops over the list are one action per turn.  The application is    *)
(* the environment: it calls idler_get_next_stream until it gets NULL, it  *)
(* reads a stream that is ready for that, and it may do the rest while it  *)
(* has a stream in its hand, and between two rounds.  What it does not do, *)
(* because an iterator that follows the link of the stream it is given     *)
(* could not go on, is in MayAdd, MayRemove and MayDelete.                 *)
(***************************************************************************)
EXTENDS Integers

CONSTANTS
    Streams,        \* struct stream, the memory of them
    ListHead,       \* owner of the link to the first stream
    NULL,
    Fds,            \* the file descriptors there are
    Writers,        \* the streams that may have outgoing data
    MaxAdds         \* bound on the calls of idler_add_stream

NoFd == -1

ASSUME IdlerAssumption ==
    /\ NULL \notin Streams /\ ListHead \notin Streams /\ NULL # ListHead
    /\ Fds \subseteq Nat /\ Writers \subseteq Streams
    /\ MaxAdds \in Nat

VARIABLES
    next,           \* le_next of a stream, lh_first of ListHead
    prev,           \* the owner of the link that le_prev points to
    fd,             \* NoFd: the stream is deleted, or not created
    listed,         \* the streams that are in the list
    added,          \* when a stream was last added, counted in additions
    adds,           \* additions so far
    readable,       \* streams whose socket has something to read
    queued,         \* streams with outgoing data
    read_fds, write_fds,
    phase,          \* "idle", "asking" in idler_prepare, "scanning" in
                    \* idler_get_next_stream, "serving", "served"
    cursor,         \* the variable of the loop
    current,        \* the stream the application has in its hand
    due,            \* streams that select has reported, and still in the list
    served          \* streams that the iterator has returned in this round

listVars == <<next, prev, listed, added, adds>>
setVars == <<read_fds, write_fds>>
roundVars == <<phase, cursor, current, due, served>>
vars == <<next, prev, fd, listed, added, adds, readable, queued, read_fds, write_fds,
          phase, cursor, current, due, served>>

Init ==
    /\ next = [s \in Streams \cup {ListHead} |-> NULL]
    /\ prev = [s \in Streams |-> NULL]
    /\ fd = [s \in Streams |-> NoFd]
    /\ listed = {} /\ added = [s \in Streams |-> 0] /\ adds = 0
    /\ readable = {} /\ queued = {}
    /\ read_fds = {} /\ write_fds = {}
    /\ phase = "idle" /\ cursor = NULL /\ current = NULL
    /\ due = {} /\ served = {}

-----------------------------------------------------------------------------
(* The list.                                                               *)

First == next[ListHead]

\* LIST_INSERT_HEAD.
InsertHead(s) ==
    /\ next' = [next EXCEPT ![s] = First, ![ListHead] = s]
    /\ prev' = [t \in Streams |-> IF t = s THEN ListHead
                                  ELSE IF t = First THEN s
                                  ELSE prev[t]]

\* The owner of the last link, for the mutation of Insert below.
Last == CHOOSE o \in listed \cup {ListHead} : next[o] = NULL

InsertTail(s) ==
    /\ next' = [next EXCEPT ![s] = NULL, ![Last] = s]
    /\ prev' = [prev EXCEPT ![s] = Last]

\* idler_add_stream.  Mutation: at the end of the list.
Insert(s) == InsertHead(s)

\* The links back after LIST_REMOVE.  Mutation: they stay what they are.
PrevStays(s) == prev

PrevWithout(s) ==
    [t \in Streams |-> IF t = next[s] THEN prev[s] ELSE prev[t]]

\* LIST_REMOVE: the links of the stream itself stay what they are.
Unlink(s) ==
    /\ next' = [next EXCEPT ![prev[s]] = next[s]]
    /\ prev' = PrevWithout(s)

-----------------------------------------------------------------------------
(* idler_wait.                                                             *)

\* The streams that an fd_set names.
In(fds) == {s \in Streams : fd[s] \in fds}

StartWait ==
    /\ phase = "idle"
    /\ phase' = "asking" /\ cursor' = First
    /\ read_fds' = {} /\ write_fds' = {}
    /\ UNCHANGED <<listVars, fd, readable, queued, current, due, served>>

\* What idler_prepare asks for besides data that can be written.  Mutation: a
\* stream that wants to write is not read.
AskedIfIdle(s) == IF s \in queued THEN {} ELSE {fd[s]}

AskedForReading(s) == {fd[s]}

\* A turn of the loop of idler_prepare.
Prepare ==
    /\ phase = "asking" /\ cursor # NULL
    /\ read_fds' = read_fds \cup AskedForReading(cursor)
    /\ write_fds' = IF cursor \in queued THEN write_fds \cup {fd[cursor]} ELSE write_fds
    /\ cursor' = next[cursor]
    /\ UNCHANGED <<listVars, fd, readable, queued, phase, current, due, served>>

\* select keeps the descriptors that are ready; whether one can be written is
\* up to the kernel.  When it reports some (IDLER_OPERATION) the application
\* gets its first stream.
Select ==
    /\ phase = "asking" /\ cursor = NULL
    /\ read_fds' = {fd[s] : s \in {t \in readable : fd[t] \in read_fds}}
    /\ write_fds' \in SUBSET write_fds
    /\ IF read_fds' \cup write_fds' # {}
       THEN phase' = "scanning" /\ cursor' = First
       ELSE phase' = "idle" /\ UNCHANGED cursor
    /\ current' = NULL
    /\ due' = In(read_fds' \cup write_fds') \cap listed
    /\ served' = {}
    /\ UNCHANGED <<listVars, fd, readable, queued>>

\* IDLER_INTERRUPT or IDLER_ERROR: the sets stay as they were asked for.
WaitFails ==
    /\ phase = "asking" /\ cursor = NULL
    /\ phase' = "idle"
    /\ UNCHANGED <<listVars, setVars, fd, readable, queued, cursor, current, due, served>>

-----------------------------------------------------------------------------
(* idler_get_next_stream.                                                  *)

\* Where the loop goes on.
After(s) == next[s]

GetNext ==
    /\ phase = "served"
    /\ phase' = "scanning" /\ cursor' = After(current)
    /\ UNCHANGED <<listVars, setVars, fd, readable, queued, current, due, served>>

\* Mutation of NeedsAttention: only reading counts.
NeedsReading(s) == fd[s] \in read_fds

NeedsAttention(s) == fd[s] \in read_fds \cup write_fds

\* A turn of its loop; at the end of the list it returns NULL.
Scan ==
    /\ phase = "scanning"
    /\ \/ /\ cursor # NULL /\ NeedsAttention(cursor)
          /\ phase' = "serving" /\ current' = cursor
          /\ served' = served \cup {cursor}
          /\ UNCHANGED <<cursor, due>>
       \/ /\ cursor # NULL /\ ~NeedsAttention(cursor)
          /\ cursor' = next[cursor]
          /\ UNCHANGED <<phase, current, due, served>>
       \/ /\ cursor = NULL
          /\ phase' = "idle" /\ current' = NULL
          /\ due' = {} /\ served' = {}
          /\ UNCHANGED cursor
    /\ UNCHANGED <<listVars, setVars, fd, readable, queued>>

-----------------------------------------------------------------------------
(* The application, and the peers.                                         *)

\* It reads what has arrived and writes what it can.
Serve ==
    /\ phase = "serving"
    /\ readable' = IF fd[current] \in read_fds THEN readable \ {current} ELSE readable
    /\ \/ UNCHANGED queued
       \/ fd[current] \in write_fds /\ queued' = queued \ {current}
    /\ phase' = "served"
    /\ UNCHANGED <<listVars, setVars, fd, cursor, current, due, served>>

\* The application has control and does what it likes.
Free == phase \in {"idle", "served"}

\* It does not put the stream in its hand at the head of the list, from where
\* the iteration would begin again, ...
MayAdd(s) == s \notin listed /\ s # current /\ adds < MaxAdds

\* ... and when that stream has left the list, the one behind it stays.
MayRemove(s) ==
    /\ s \in listed
    /\ current \notin listed \cup {NULL} => s # next[current]

\* The kernel gives a new stream the lowest descriptor.
FreeFds == Fds \ {fd[s] : s \in Streams}

Lowest(n) == n \in FreeFds /\ \A m \in FreeFds : n <= m

\* idler_add_stream, with a stream that was removed or with a new one.
AddStream(s) ==
    /\ Free /\ MayAdd(s)
    /\ \/ fd[s] # NoFd /\ UNCHANGED fd
       \/ /\ fd[s] = NoFd
          /\ \E n \in Fds : Lowest(n) /\ fd' = [fd EXCEPT ![s] = n]
    /\ Insert(s)
    /\ listed' = listed \cup {s}
    /\ added' = [added EXCEPT ![s] = adds + 1] /\ adds' = adds + 1
    /\ UNCHANGED <<setVars, roundVars, readable, queued>>

\* idler_remove_stream.
RemoveStream(s) ==
    /\ Free /\ MayRemove(s)
    /\ Unlink(s)
    /\ listed' = listed \ {s} /\ due' = due \ {s}
    /\ UNCHANGED <<setVars, added, adds, fd, readable, queued, phase, cursor, current, served>>

\* The memory of the stream in its hand is needed once more.
MayDelete(s) == s \notin listed /\ s # current /\ fd[s] # NoFd

\* stream_delete.
DeleteStream(s) ==
    /\ Free /\ MayDelete(s)
    /\ fd' = [fd EXCEPT ![s] = NoFd]
    /\ readable' = readable \ {s} /\ queued' = queued \ {s}
    /\ UNCHANGED <<listVars, setVars, roundVars>>

\* idler_delete, and idler_new.
DeleteIdler ==
    /\ phase = "idle" /\ listed # {}
    /\ next' = [next EXCEPT ![ListHead] = NULL]
    /\ prev' = [s \in Streams |-> IF s \in listed THEN ListHead ELSE prev[s]]
    /\ listed' = {} /\ due' = {}
    /\ UNCHANGED <<setVars, added, adds, fd, readable, queued, phase, cursor, current, served>>

\* stream_write leaves something behind.
Queue(s) ==
    /\ Free /\ s \in Writers /\ fd[s] # NoFd /\ s \notin queued
    /\ queued' = queued \cup {s}
    /\ UNCHANGED <<listVars, setVars, roundVars, fd, readable>>

\* What arrives while the idler is busy is seen no earlier by anybody.
Arrive(s) ==
    /\ Free /\ fd[s] # NoFd /\ s \notin readable
    /\ readable' = readable \cup {s}
    /\ UNCHANGED <<listVars, setVars, roundVars, fd, queued>>

Next ==
    \/ StartWait \/ Prepare \/ Select \/ WaitFails
    \/ GetNext \/ Scan \/ Serve \/ DeleteIdler
    \/ \E s \in Streams :
         AddStream(s) \/ RemoveStream(s) \/ DeleteStream(s) \/ Queue(s) \/ Arrive(s)

Spec == Init /\ [][Next]_vars

\* The loop of the application goes round, and its waits do not fail for ever.
Fairness ==
    /\ WF_vars(StartWait) /\ WF_vars(Prepare) /\ SF_vars(Select)
    /\ WF_vars(GetNext) /\ WF_vars(Scan) /\ WF_vars(Serve)

FairSpec == Spec /\ Fairness

-----------------------------------------------------------------------------
(* Properties.                                                             *)

(* Every variable keeps its type.                                          *)
TypeOK ==
    /\ next \in [Streams \cup {ListHead} -> Streams \cup {NULL}]
    /\ prev \in [Streams -> Streams \cup {ListHead, NULL}]
    /\ fd \in [Streams -> Fds \cup {NoFd}]
    /\ listed \subseteq Streams /\ added \in [Streams -> 0..MaxAdds] /\ adds \in 0..MaxAdds
    /\ readable \subseteq Streams /\ queued \subseteq Streams
    /\ read_fds \subseteq Fds /\ write_fds \subseteq Fds
    /\ phase \in {"idle", "asking", "scanning", "serving", "served"}
    /\ cursor \in Streams \cup {NULL} /\ current \in Streams \cup {NULL}
    /\ due \subseteq listed /\ served \subseteq Streams

\* The streams behind a stream, or behind ListHead: those that were added before.
Behind(o) == {s \in listed : o = ListHead \/ added[s] < added[o]}

\* The link of o leads to the newest of them.
LeadsOn(o) ==
    IF Behind(o) = {} THEN next[o] = NULL
    ELSE next[o] \in Behind(o) /\ \A s \in Behind(o) : added[s] <= added[next[o]]

(* The links are those of the list of the streams that were added and not   *)
(* removed, the last one first, and the links back agree with them,         *)
(* whatever was removed when.                                               *)
ListLinked ==
    /\ \A o \in listed \cup {ListHead} : LeadsOn(o) /\ (next[o] # NULL => prev[next[o]] = o)
    /\ \A s \in listed : prev[s] \in listed \cup {ListHead} /\ next[prev[s]] = s

(* In a round the iterator returns no stream twice, and none that has left  *)
(* the list or that select has not reported: also when the stream in the    *)
(* hand was removed before the next call, and when a stream was opened with *)
(* the descriptor of one that was deleted during the round.                 *)
ServedOnce ==
    [][phase = "scanning" /\ phase' = "serving" =>
         current' \notin served /\ current' \in due]_vars

(* When the iterator returns NULL it has returned every stream that select  *)
(* has reported and that is still in the list.                              *)
ServedAll == [][phase = "scanning" /\ phase' = "idle" => due \subseteq served]_vars

(* A stream that has something to read is read in the end, whatever the     *)
(* others do, unless it leaves the list.                                    *)
EveryoneRead ==
    \A s \in Streams : s \in readable \cap listed ~> s \notin readable \cap listed

=============================================================================
