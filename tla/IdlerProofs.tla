---------------------------- MODULE IdlerProofs ----------------------------
(***************************************************************************)
(* Theorems of Idler: type correctness, the links of the list, and what    *)
(* the iterator returns in a round.                                        *)
(*                                                                         *)
(* The order of the additions is what everything hangs on.  The list leads *)
(* from newer streams to older ones: what the iterator has returned in a   *)
(* round is newer than what lies before it (Fresh), what is still due lies *)
(* before it (Ahead), and what is added during the round is newer still.   *)
(***************************************************************************)
EXTENDS Idler, TLAPS

(* A listed stream is open, and its addition is the only one of its number. *)
Opened == \A s \in listed : fd[s] \in Fds

Stamped ==
    /\ \A s \in Streams : added[s] <= adds
    /\ \A s, t \in listed : added[s] = added[t] => s = t

(* The loops are at a listed stream, or at their end.                       *)
CursorListed == phase \in {"asking", "scanning"} => cursor \in listed \cup {NULL}

(* The application has a stream in its hand, and its link leads on, also    *)
(* when the stream was removed.                                             *)
InHand == phase \in {"serving", "served"}

HandLinked == InHand => current \in Streams /\ LeadsOn(current)

(* What is due needs attention, and the iterator has not passed it.         *)
Ahead ==
    /\ phase = "scanning" \/ InHand => \A s \in due : NeedsAttention(s)
    /\ phase = "scanning" =>
         \A s \in due \ served : cursor # NULL /\ added[s] <= added[cursor]
    /\ InHand => \A s \in due \ served : added[s] < added[current]

(* What it has returned it has passed, and what lies before it is due if it *)
(* needs attention.                                                         *)
Fresh ==
    /\ phase = "scanning" /\ cursor # NULL =>
         /\ \A t \in served : added[cursor] < added[t]
         /\ \A s \in listed : added[s] <= added[cursor] /\ NeedsAttention(s) => s \in due
    /\ InHand =>
         /\ \A t \in served : added[current] <= added[t]
         /\ \A s \in listed : added[s] < added[current] /\ NeedsAttention(s) => s \in due

Lists == TypeOK /\ ListLinked /\ Opened /\ Stamped

Rounds == CursorListed /\ HandLinked /\ Ahead /\ Fresh

IInv == Lists /\ Rounds

-----------------------------------------------------------------------------
(* The list.                                                               *)

(* What the type invariant says of the list.                                *)
LEMMA ListTyped ==
    ASSUME TypeOK
    PROVE  /\ listed \subseteq Streams /\ ListHead \notin listed /\ NULL \notin listed
           /\ \A s \in Streams : added[s] \in Int
           /\ adds \in Int
           /\ next \in [Streams \cup {ListHead} -> Streams \cup {NULL}]
           /\ added \in [Streams -> 0..MaxAdds]
  BY IdlerAssumption DEF TypeOK

(* A call that leaves the list and the descriptors alone.                   *)
LEMMA ListStays ==
    ASSUME IInv, UNCHANGED <<listVars, fd>>
    PROVE  ListLinked' /\ Opened' /\ Stamped'
<1>1. /\ next' = next /\ prev' = prev /\ listed' = listed
      /\ added' = added /\ adds' = adds /\ fd' = fd
  BY DEF listVars
<1>2. ListLinked'
  BY <1>1 DEF IInv, Lists, ListLinked, LeadsOn, Behind
<1>3. Opened'
  BY <1>1 DEF IInv, Lists, Opened
<1>4. Stamped'
  BY <1>1 DEF IInv, Lists, Stamped
<1> QED
  BY <1>2, <1>3, <1>4

(* An addition goes before everything else.                                 *)
LEMMA Adding ==
    ASSUME Lists, NEW s \in Streams, s \notin listed, InsertHead(s),
           listed' = listed \cup {s}, added' = [added EXCEPT ![s] = adds + 1]
    PROVE  ListLinked'
<1>1. /\ TypeOK /\ ListLinked /\ Stamped
      /\ listed \subseteq Streams /\ ListHead \notin Streams /\ NULL \notin Streams /\ NULL # ListHead
      /\ \A t \in Streams : added[t] \in Int /\ added[t] <= adds
      /\ adds \in Int
  BY ListTyped, IdlerAssumption DEF Lists, Stamped
<1>2. /\ next'[s] = First /\ next'[ListHead] = s
      /\ \A o \in listed : next'[o] = next[o]
  BY <1>1 DEF InsertHead, TypeOK
<1>3. /\ prev'[s] = ListHead
      /\ \A t \in listed : prev'[t] = IF t = First THEN s ELSE prev[t]
  BY <1>1 DEF InsertHead
<1>4. /\ added'[s] = adds + 1
      /\ \A t \in listed : added'[t] = added[t]
  BY <1>1 DEF TypeOK
<1>5. /\ First = NULL \/ First \in listed
      /\ First # NULL => prev[First] = ListHead
  BY <1>1 DEF ListLinked, LeadsOn, Behind, First
<1>6. ASSUME NEW o \in listed
      PROVE  LeadsOn(o)' /\ (next'[o] # NULL => prev'[next'[o]] = o)
  <2>1. Behind(o)' = Behind(o)
    BY <1>1, <1>4 DEF Behind
  <2>2. LeadsOn(o) /\ (next[o] # NULL => next[o] \in listed /\ prev[next[o]] = o)
    BY <1>1 DEF ListLinked, LeadsOn, Behind
  <2>3. Behind(o) \subseteq listed
    BY DEF Behind
  <2>4. LeadsOn(o)'
    BY <1>2, <1>4, <2>1, <2>2, <2>3 DEF LeadsOn
  <2>5. ASSUME next'[o] # NULL
        PROVE  prev'[next'[o]] = o
    <3>1. next'[o] = next[o] /\ next[o] \in listed /\ prev[next[o]] = o
      BY <1>2, <2>2, <2>5
    <3>2. next[o] # First
      BY <1>1, <1>5, <3>1
    <3> QED
      BY <1>3, <3>1, <3>2
  <2> QED
    BY <2>4, <2>5
<1>7. LeadsOn(s)' /\ (next'[s] # NULL => prev'[next'[s]] = s)
  <2>1. Behind(s)' = listed
    <3>1. \A t \in listed : added'[t] < added'[s]
      BY <1>1, <1>4
    <3>2. ~(added'[s] < added'[s]) /\ s # ListHead
      BY <1>1, <1>4
    <3> QED
      BY <3>1, <3>2 DEF Behind
  <2>2. Behind(ListHead) = listed
    BY DEF Behind
  <2>3. LeadsOn(ListHead)
    BY <1>1 DEF ListLinked
  <2>4. LeadsOn(s)'
    BY <1>2, <1>4, <2>1, <2>2, <2>3 DEF LeadsOn, First
  <2> QED
    BY <1>2, <1>3, <1>5, <2>4
<1>8. LeadsOn(ListHead)' /\ (next'[ListHead] # NULL => prev'[next'[ListHead]] = ListHead)
  <2>1. Behind(ListHead)' = listed \cup {s}
    BY DEF Behind
  <2>2. \A t \in listed \cup {s} : added'[t] <= added'[s]
    BY <1>1, <1>4
  <2>3. LeadsOn(ListHead)'
    BY <1>2, <2>1, <2>2 DEF LeadsOn
  <2> QED
    BY <1>2, <1>3, <2>3
<1>9. ASSUME NEW t \in listed'
      PROVE  prev'[t] \in listed' \cup {ListHead} /\ next'[prev'[t]] = t
  <2>1. CASE t = s
    BY <1>2, <1>3, <2>1
  <2>2. CASE t = First /\ t # s
    BY <1>2, <1>3, <2>2
  <2>3. CASE t # First /\ t # s
    <3>1. t \in listed /\ prev[t] \in listed \cup {ListHead} /\ next[prev[t]] = t
      BY <1>1, <2>3 DEF ListLinked
    <3>2. prev[t] \in listed
      BY <2>3, <3>1 DEF First
    <3> QED
      BY <1>2, <1>3, <2>3, <3>1, <3>2
  <2> QED
    BY <2>1, <2>2, <2>3
<1> QED
  BY <1>6, <1>7, <1>8, <1>9 DEF ListLinked

(* A stream that another one leaves behind: its link leads on as before.    *)
LEMMA LeftBehind ==
    ASSUME TypeOK, NEW s \in listed, NEW o, LeadsOn(o), next[o] # s, next'[o] = next[o],
           listed' = listed \ {s}, added' = added
    PROVE  LeadsOn(o)'
<1>1. Behind(o)' = Behind(o) \ {s}
  BY DEF Behind
<1>2. CASE Behind(o) = {}
  BY <1>1, <1>2 DEF LeadsOn
<1>3. CASE Behind(o) # {}
  BY <1>1, <1>3 DEF LeadsOn
<1> QED
  BY <1>2, <1>3

(* What LIST_REMOVE relies on: only one link leads to a listed stream.      *)
LEMMA OneOwner ==
    ASSUME Lists, NEW s \in listed
    PROVE  /\ prev[s] \in listed \cup {ListHead} /\ prev[s] # s /\ next[prev[s]] = s
           /\ \A o \in listed \cup {ListHead} : next[o] = s => o = prev[s]
           /\ next[s] # s
           /\ next[s] # NULL => next[s] \in listed /\ prev[next[s]] = s
<1>1. ListLinked /\ listed \subseteq Streams /\ NULL \notin listed /\ ListHead \notin listed
      /\ added[s] \in Int
  BY ListTyped DEF Lists
<1>2. prev[s] \in listed \cup {ListHead} /\ next[prev[s]] = s
  BY <1>1 DEF ListLinked
<1>3. \A o \in listed \cup {ListHead} : next[o] = s => o = prev[s]
  BY <1>1 DEF ListLinked
<1>4. s \notin Behind(s)
  BY <1>1 DEF Behind
<1>5. LeadsOn(s) /\ (next[s] # NULL => prev[next[s]] = s)
  BY <1>1 DEF ListLinked
<1>6. next[s] # s /\ (next[s] # NULL => next[s] \in listed)
  BY <1>1, <1>4, <1>5 DEF LeadsOn, Behind
<1> QED
  BY <1>2, <1>3, <1>5, <1>6

(* A removal leaves the list of the others.                                 *)
LEMMA Removing ==
    ASSUME Lists, NEW s \in listed, Unlink(s),
           listed' = listed \ {s}, added' = added
    PROVE  /\ ListLinked'
           /\ \A o \in Streams : o \notin listed \ {s} => next'[o] = next[o]
<1>0. PICK p \in listed \cup {ListHead}, n \in listed \cup {NULL} : p = prev[s] /\ n = next[s]
  BY OneOwner
<1>1. /\ TypeOK /\ ListLinked /\ Stamped
      /\ listed \subseteq Streams /\ ListHead \notin Streams /\ NULL \notin Streams
      /\ \A t \in listed : added[t] \in Int
  BY ListTyped, IdlerAssumption DEF Lists
<1>2. /\ p \in listed \cup {ListHead} /\ p # s /\ next[p] = s
      /\ \A o \in listed \cup {ListHead} : next[o] = s => o = p
      /\ next[s] = n /\ n # s /\ (n # NULL => n \in listed /\ prev[n] = s)
  BY <1>0, OneOwner
<1>3. /\ next'[p] = n
      /\ \A o \in Streams \cup {ListHead} : o # p => next'[o] = next[o]
  BY <1>0, <1>1, <1>2 DEF Unlink, TypeOK
<1>4. \A t \in Streams : prev'[t] = IF t = n THEN p ELSE prev[t]
  BY <1>0 DEF Unlink, PrevWithout
<1>5. ASSUME NEW o \in listed' \cup {ListHead}
      PROVE  LeadsOn(o)' /\ (next'[o] # NULL => prev'[next'[o]] = o)
  <2>1. o \in listed \cup {ListHead} /\ o # s
    BY <1>1
  <2>2. LeadsOn(o) /\ (next[o] # NULL => next[o] \in listed /\ prev[next[o]] = o)
    BY <1>1, <2>1 DEF ListLinked, LeadsOn, Behind
  <2>3. CASE o # p
    <3>1. next'[o] = next[o] /\ next[o] # s
      BY <1>1, <1>2, <1>3, <2>1, <2>3
    <3>2. LeadsOn(o)'
      BY <1>1, <2>2, <3>1, LeftBehind
    <3>3. ASSUME next[o] # NULL
          PROVE  next[o] \in Streams /\ next[o] # n
      BY <1>1, <1>2, <2>1, <2>2, <3>3
    <3> QED
      BY <1>4, <2>2, <3>1, <3>2, <3>3
  <2>4. CASE o = p
    <3>1. s \in Behind(p) /\ \A t \in Behind(p) : added[t] <= added[s]
      <4>1. next[p] = s /\ s # NULL /\ LeadsOn(p)
        BY <1>1, <1>2, <2>2, <2>4
      <4> QED
        BY <4>1 DEF LeadsOn
    <3>2. p = ListHead \/ (p \in listed /\ added[s] < added[p])
      BY <1>2, <3>1 DEF Behind
    <3>3. Behind(p)' = Behind(s)
      <4>1. ASSUME NEW t \in listed, t # s, p = ListHead \/ added[t] < added[p]
            PROVE  added[t] < added[s]
        <5>1. added[t] <= added[s]
          BY <3>1, <4>1 DEF Behind
        <5>2. added[t] # added[s]
          BY <1>1, <4>1 DEF Stamped
        <5> QED
          BY <1>1, <5>1, <5>2
      <4>2. ASSUME NEW t \in listed, s = ListHead \/ added[t] < added[s]
            PROVE  t # s /\ (p = ListHead \/ added[t] < added[p])
        <5>1. s # ListHead /\ added[t] < added[s]
          BY <1>1, <4>2
        <5>2. t # s
          BY <1>1, <5>1
        <5>3. p = ListHead \/ added[t] < added[p]
          BY <1>1, <3>2, <5>1
        <5> QED
          BY <5>2, <5>3
      <4> QED
        BY <4>1, <4>2 DEF Behind
    <3>4. LeadsOn(s)
      BY <1>1 DEF ListLinked
    <3>5. LeadsOn(p)'
      BY <1>2, <1>3, <3>3, <3>4 DEF LeadsOn
    <3>6. n # NULL => prev'[n] = p
      BY <1>1, <1>2, <1>4
    <3> QED
      BY <1>3, <2>4, <3>5, <3>6
  <2> QED
    BY <2>3, <2>4
<1>6. ASSUME NEW t \in listed'
      PROVE  prev'[t] \in listed' \cup {ListHead} /\ next'[prev'[t]] = t
  <2>1. t \in listed /\ t # s /\ t \in Streams
    BY <1>1
  <2>2. CASE t = n
    <3>1. prev'[t] = p
      BY <1>4, <2>1, <2>2
    <3> QED
      BY <1>2, <1>3, <2>2, <3>1
  <2>3. CASE t # n
    <3>1. prev'[t] = prev[t] /\ prev[t] \in listed \cup {ListHead} /\ next[prev[t]] = t
      BY <1>1, <1>4, <2>1, <2>3 DEF ListLinked
    <3>2. prev[t] # s /\ prev[t] # p
      BY <1>2, <2>1, <2>3, <3>1
    <3>3. next'[prev[t]] = next[prev[t]]
      BY <1>1, <1>3, <3>1, <3>2
    <3> QED
      BY <3>1, <3>2, <3>3
  <2> QED
    BY <2>2, <2>3
<1>7. \A o \in Streams : o \notin listed \ {s} => next'[o] = next[o]
  BY <1>1, <1>2, <1>3
<1> QED
  BY <1>5, <1>6, <1>7 DEF ListLinked

-----------------------------------------------------------------------------
(* Steps of the idler.                                                     *)

(* A turn of the loop of idler_prepare finds a listed stream, ...           *)
LEMMA PrepareKeeps == ASSUME IInv, Prepare PROVE IInv'
<1>1. UNCHANGED <<listVars, fd, readable, queued, phase, current, due, served>>
  BY DEF Prepare
<1>2. phase = "asking" /\ cursor \in listed /\ cursor' = next[cursor]
  BY DEF Prepare, IInv, Rounds, CursorListed
<1>3. fd[cursor] \in Fds /\ LeadsOn(cursor) /\ TypeOK
  BY <1>2 DEF IInv, Lists, Opened, ListLinked
<1>4. cursor' \in listed \cup {NULL}
  BY <1>2, <1>3 DEF LeadsOn, Behind
<1>5. read_fds' \subseteq Fds /\ write_fds' \subseteq Fds
  BY <1>3 DEF Prepare, AskedForReading, TypeOK
<1>6. TypeOK'
  BY <1>1, <1>3, <1>4, <1>5 DEF TypeOK, listVars
<1>7. Rounds'
  BY <1>1, <1>2, <1>4 DEF Rounds, CursorListed, HandLinked, Ahead, Fresh, InHand, listVars
<1> QED
  BY <1>1, <1>6, <1>7, ListStays DEF IInv, Lists

(* ... select reports descriptors that were asked for, ...                  *)
LEMMA SelectKeeps == ASSUME IInv, Select PROVE IInv'
<1>1. UNCHANGED <<listVars, fd, readable, queued>> /\ TypeOK
  BY DEF Select, IInv, Lists
<1>2. read_fds' \subseteq read_fds /\ write_fds' \subseteq write_fds
  BY DEF Select
<1>3. LeadsOn(ListHead)
  BY DEF IInv, Lists, ListLinked
<1>4. First \in listed \cup {NULL}
  BY <1>3 DEF LeadsOn, Behind, First
<1>5. /\ phase' \in {"idle", "scanning"} /\ phase = "asking" /\ cursor = NULL
      /\ phase' = "scanning" => cursor' = First
      /\ phase' # "scanning" => cursor' = cursor
      /\ current' = NULL /\ served' = {}
      /\ due' = In(read_fds' \cup write_fds') \cap listed
  BY DEF Select
<1>6. TypeOK'
  BY <1>1, <1>2, <1>4, <1>5 DEF TypeOK, listVars
<1>7. CursorListed' /\ ~InHand'
  BY <1>1, <1>4, <1>5 DEF CursorListed, InHand, listVars
<1>8. \A s \in listed : s \in due' <=> NeedsAttention(s)'
  BY <1>1, <1>5 DEF In, NeedsAttention, TypeOK
<1>9. ASSUME phase' = "scanning", NEW s \in due'
      PROVE  cursor' # NULL /\ added[s] <= added[cursor']
  <2>1. s \in listed /\ s \in Behind(ListHead)
    BY <1>5, <1>9 DEF Behind
  <2>2. First \in listed /\ added[s] <= added[First] /\ First # NULL
    BY <1>1, <1>3, <2>1, ListTyped DEF LeadsOn, Behind, First
  <2> QED
    BY <1>5, <1>9, <2>2
<1>10. due' \subseteq listed
  BY <1>5
<1>11. Ahead'
  <2>1. \A s \in due' : NeedsAttention(s)'
    BY <1>8, <1>10
  <2>2. phase' = "scanning" => \A s \in due' \ served' : cursor' # NULL /\ added'[s] <= added'[cursor']
    BY <1>1, <1>9 DEF listVars
  <2> QED
    BY <1>7, <2>1, <2>2 DEF Ahead
<1>12. Fresh'
  BY <1>1, <1>5, <1>7, <1>8 DEF Fresh, listVars
<1> QED
  BY <1>1, <1>6, <1>7, <1>11, <1>12, ListStays DEF IInv, Lists, Rounds, HandLinked

(* ... and a turn of the loop of idler_get_next_stream goes on to the next  *)
(* stream or returns this one.                                              *)
LEMMA ScanKeeps == ASSUME IInv, Scan PROVE IInv'
<1>1. UNCHANGED <<listVars, setVars, fd, readable, queued>> /\ TypeOK /\ phase = "scanning"
  BY DEF Scan, IInv, Lists
<1>2. /\ next' = next /\ listed' = listed /\ added' = added /\ fd' = fd /\ adds' = adds
      /\ prev' = prev /\ read_fds' = read_fds /\ write_fds' = write_fds
      /\ readable' = readable /\ queued' = queued
  BY <1>1 DEF listVars, setVars
<1>3. \A s \in Streams : NeedsAttention(s)' <=> NeedsAttention(s)
  BY <1>2 DEF NeedsAttention
<1>4. listed \subseteq Streams /\ due \subseteq listed /\ \A s \in Streams : added[s] \in Int
  BY <1>1, ListTyped DEF TypeOK
<1>5. CASE cursor = NULL
  <2>1. phase' = "idle" /\ current' = NULL /\ due' = {} /\ served' = {} /\ cursor' = cursor
    BY <1>5 DEF Scan
  <2>2. TypeOK'
    BY <1>1, <1>2, <2>1 DEF TypeOK
  <2>3. Rounds'
    BY <2>1 DEF Rounds, CursorListed, HandLinked, Ahead, Fresh, InHand
  <2> QED
    BY <1>1, <2>2, <2>3, ListStays DEF IInv, Lists
<1>6. CASE cursor # NULL /\ ~NeedsAttention(cursor)
  <2>1. cursor' = next[cursor] /\ UNCHANGED <<phase, current, due, served>>
    BY <1>6 DEF Scan
  <2>2. cursor \in listed /\ LeadsOn(cursor)
    BY <1>1, <1>6 DEF IInv, Lists, Rounds, CursorListed, ListLinked
  <2>3. cursor' \in listed \cup {NULL} /\ (cursor' # NULL => added[cursor'] < added[cursor])
    BY <1>4, <2>1, <2>2, IdlerAssumption DEF LeadsOn, Behind
  <2>4. TypeOK'
    BY <1>1, <1>2, <2>1, <2>3 DEF TypeOK
  <2>5. ASSUME NEW s \in due \ served
        PROVE  cursor' # NULL /\ added[s] <= added[cursor']
    <3>1. NeedsAttention(s) /\ added[s] <= added[cursor] /\ s \in listed
      BY <1>1, <1>4 DEF IInv, Rounds, Ahead
    <3>2. added[s] # added[cursor]
      BY <1>6, <2>2, <3>1 DEF IInv, Lists, Stamped
    <3>3. s \in Behind(cursor)
      BY <1>4, <2>2, <3>1, <3>2 DEF Behind
    <3> QED
      BY <1>4, <2>1, <2>2, <3>3, IdlerAssumption DEF LeadsOn, Behind
  <2>6. Ahead'
    BY <1>1, <1>2, <1>3, <1>4, <2>1, <2>5 DEF IInv, Rounds, Ahead, InHand
  <2>7. Fresh'
    <3>1. /\ \A t \in served : added[cursor] < added[t] /\ t \in Streams
          /\ \A s \in listed : added[s] <= added[cursor] /\ NeedsAttention(s) => s \in due
      BY <1>1, <1>6 DEF IInv, Rounds, Fresh, TypeOK
    <3>2. ASSUME cursor' # NULL, NEW t \in served
          PROVE  added[cursor'] < added[t]
      <4>1. added[cursor'] \in Int /\ added[cursor] \in Int /\ added[t] \in Int
        BY <1>4, <2>2, <2>3, <3>1, <3>2
      <4> QED
        BY <2>3, <3>1, <3>2, <4>1
    <3>3. ASSUME cursor' # NULL, NEW s \in listed, added[s] <= added[cursor'], NeedsAttention(s)
          PROVE  s \in due
      <4>1. added[cursor'] \in Int /\ added[cursor] \in Int /\ added[s] \in Int
        BY <1>4, <2>2, <2>3, <3>3
      <4> QED
        BY <2>3, <3>1, <3>3, <4>1
    <3>4. ~InHand' /\ phase' = "scanning"
      BY <1>1, <2>1 DEF InHand
    <3> QED
      BY <1>2, <1>3, <1>4, <2>1, <3>2, <3>3, <3>4 DEF Fresh
  <2>8. CursorListed' /\ HandLinked'
    BY <1>1, <1>2, <2>1, <2>3 DEF CursorListed, HandLinked, InHand
  <2> QED
    BY <1>1, <2>4, <2>6, <2>7, <2>8, ListStays DEF IInv, Lists, Rounds
<1>7. CASE cursor # NULL /\ NeedsAttention(cursor)
  <2>1. /\ phase' = "serving" /\ current' = cursor /\ served' = served \cup {cursor}
        /\ UNCHANGED <<cursor, due>>
    BY <1>7 DEF Scan
  <2>2. cursor \in listed /\ LeadsOn(cursor)
    BY <1>1, <1>7 DEF IInv, Lists, Rounds, CursorListed, ListLinked
  <2>3. TypeOK'
    BY <1>1, <1>2, <2>1, <2>2 DEF TypeOK
  <2>4. CursorListed' /\ InHand' /\ phase' # "scanning"
    BY <2>1 DEF CursorListed, InHand
  <2>5. HandLinked'
    BY <1>2, <1>4, <2>1, <2>2 DEF HandLinked, LeadsOn, Behind
  <2>6. ASSUME NEW s \in due \ (served \cup {cursor})
        PROVE  added[s] < added[cursor]
    <3>1. added[s] <= added[cursor] /\ s \in listed /\ s # cursor
      BY <1>1, <1>4 DEF IInv, Rounds, Ahead
    <3>2. added[s] # added[cursor]
      BY <2>2, <3>1 DEF IInv, Lists, Stamped
    <3> QED
      BY <1>4, <2>2, <3>1, <3>2
  <2>7. Ahead'
    <3>1. \A s \in due : NeedsAttention(s)
      BY <1>1 DEF IInv, Rounds, Ahead
    <3> QED
      BY <1>2, <1>3, <1>4, <2>1, <2>4, <2>6, <3>1 DEF Ahead
  <2>8. Fresh'
    <3>1. /\ \A t \in served : added[cursor] < added[t] /\ t \in Streams
          /\ \A s \in listed : added[s] <= added[cursor] /\ NeedsAttention(s) => s \in due
      BY <1>1, <1>7 DEF IInv, Rounds, Fresh, TypeOK
    <3>2. \A t \in served \cup {cursor} : added[cursor] <= added[t]
      BY <1>4, <2>2, <3>1
    <3>3. \A s \in listed : added[s] < added[cursor] /\ NeedsAttention(s) => s \in due
      BY <1>4, <2>2, <3>1
    <3> QED
      BY <1>2, <1>3, <1>4, <2>1, <2>4, <3>2, <3>3 DEF Fresh
  <2> QED
    BY <1>1, <2>3, <2>4, <2>5, <2>7, <2>8, ListStays DEF IInv, Lists, Rounds
<1> QED
  BY <1>5, <1>6, <1>7

(* idler_get_next_stream begins where the link of its argument leads.       *)
LEMMA GetNextKeeps == ASSUME IInv, GetNext PROVE IInv'
<1>1. /\ UNCHANGED <<listVars, setVars, fd, readable, queued, current, due, served>>
      /\ phase = "served" /\ phase' = "scanning" /\ cursor' = next[current]
  BY DEF GetNext, After
<1>2. /\ next' = next /\ listed' = listed /\ added' = added /\ fd' = fd
      /\ read_fds' = read_fds /\ write_fds' = write_fds /\ TypeOK
  BY <1>1 DEF listVars, setVars, IInv, Lists
<1>3. /\ listed \subseteq Streams /\ due \subseteq listed /\ \A s \in Streams : added[s] \in Int
      /\ NULL \notin Streams /\ ListHead \notin Streams
  BY <1>2, ListTyped, IdlerAssumption DEF TypeOK
<1>4. InHand /\ current \in Streams /\ LeadsOn(current)
  BY <1>1 DEF IInv, Rounds, HandLinked, InHand
<1>5. cursor' \in listed \cup {NULL} /\ (cursor' # NULL => added[cursor'] < added[current])
  BY <1>1, <1>3, <1>4 DEF LeadsOn, Behind
<1>6. TypeOK'
  BY <1>1, <1>2, <1>3, <1>5 DEF TypeOK, listVars, setVars
<1>7. \A s \in Streams : NeedsAttention(s)' <=> NeedsAttention(s)
  BY <1>2 DEF NeedsAttention
<1>8. ASSUME NEW s \in due \ served
      PROVE  cursor' # NULL /\ added[s] <= added[cursor']
  <2>1. s \in Behind(current)
    BY <1>3, <1>4 DEF IInv, Rounds, Ahead, Behind
  <2> QED
    BY <1>1, <1>3, <1>4, <2>1 DEF LeadsOn, Behind
<1>9. Ahead'
  <2>1. \A s \in due : NeedsAttention(s)
    BY <1>4 DEF IInv, Rounds, Ahead
  <2>2. ~InHand'
    BY <1>1 DEF InHand
  <2> QED
    BY <1>1, <1>2, <1>3, <1>7, <1>8, <2>1, <2>2 DEF Ahead
<1>10. Fresh'
  <2>1. /\ \A t \in served : added[current] <= added[t] /\ t \in Streams
        /\ \A s \in listed : added[s] < added[current] /\ NeedsAttention(s) => s \in due
    BY <1>2, <1>4 DEF IInv, Rounds, Fresh, TypeOK
  <2>2. ASSUME cursor' # NULL, NEW t \in served
        PROVE  added[cursor'] < added[t]
    <3>1. added[cursor'] \in Int /\ added[current] \in Int /\ added[t] \in Int
      BY <1>3, <1>4, <1>5, <2>1, <2>2
    <3> QED
      BY <1>5, <2>1, <2>2, <3>1
  <2>3. ASSUME cursor' # NULL, NEW s \in listed, added[s] <= added[cursor'], NeedsAttention(s)
        PROVE  s \in due
    <3>1. added[cursor'] \in Int /\ added[current] \in Int /\ added[s] \in Int
      BY <1>3, <1>4, <1>5, <2>3
    <3> QED
      BY <1>5, <2>1, <2>3, <3>1
  <2>4. ~InHand'
    BY <1>1 DEF InHand
  <2> QED
    BY <1>1, <1>2, <1>3, <1>7, <2>2, <2>3, <2>4 DEF Fresh
<1>11. CursorListed' /\ HandLinked'
  BY <1>1, <1>2, <1>5 DEF CursorListed, HandLinked, InHand
<1> QED
  BY <1>1, <1>6, <1>9, <1>10, <1>11, ListStays DEF IInv, Lists, Rounds

(* Steps that change neither list nor round, but for serving becoming       *)
(* served.                                                                  *)
LEMMA RoundStays ==
    ASSUME IInv, UNCHANGED <<listVars, setVars, fd, cursor, current, due, served>>,
           phase' = phase \/ (phase = "serving" /\ phase' = "served"),
           readable' \subseteq Streams, queued' \subseteq Streams
    PROVE  IInv'
<1>1. /\ next' = next /\ prev' = prev /\ listed' = listed /\ added' = added /\ adds' = adds
      /\ fd' = fd /\ read_fds' = read_fds /\ write_fds' = write_fds
      /\ cursor' = cursor /\ current' = current /\ due' = due /\ served' = served
  BY DEF listVars, setVars
<1>2. TypeOK'
  BY <1>1 DEF IInv, Lists, TypeOK
<1>3. /\ InHand' <=> InHand
      /\ phase' = "scanning" <=> phase = "scanning"
      /\ phase' \in {"asking", "scanning"} <=> phase \in {"asking", "scanning"}
  BY DEF InHand
<1>4. CursorListed' /\ HandLinked'
  BY <1>1, <1>3 DEF IInv, Rounds, CursorListed, HandLinked, LeadsOn, Behind
<1>5. \A s : NeedsAttention(s)' <=> NeedsAttention(s)
  BY <1>1 DEF NeedsAttention
<1>6. Ahead'
  BY <1>1, <1>3, <1>5 DEF IInv, Rounds, Ahead
<1>7. Fresh'
  BY <1>1, <1>3, <1>5 DEF IInv, Rounds, Fresh
<1> QED
  BY <1>1, <1>2, <1>4, <1>6, <1>7, ListStays DEF IInv, Lists, Rounds

(* Steps between two rounds: nothing is said about them but their list.     *)
LEMMA OutOfRound ==
    ASSUME phase' = "idle"
    PROVE  Rounds'
  BY DEF Rounds, CursorListed, HandLinked, Ahead, Fresh, InHand

-----------------------------------------------------------------------------
(* Calls of the application.                                               *)

(* An addition is newer than all that the round is about.                   *)
LEMMA AddKeeps == ASSUME IInv, NEW s \in Streams, AddStream(s) PROVE IInv'
<1>1. /\ Lists /\ TypeOK /\ Stamped /\ Opened /\ s \notin listed /\ s # current /\ adds < MaxAdds
      /\ InsertHead(s)
      /\ listed' = listed \cup {s}
      /\ added' = [added EXCEPT ![s] = adds + 1] /\ adds' = adds + 1
      /\ UNCHANGED <<setVars, roundVars, readable, queued>>
  BY DEF AddStream, MayAdd, Insert, IInv, Lists
<1>2. /\ read_fds' = read_fds /\ write_fds' = write_fds /\ phase' = phase /\ cursor' = cursor
      /\ current' = current /\ due' = due /\ served' = served
  BY <1>1 DEF setVars, roundVars
<1>3. /\ listed \subseteq Streams /\ due \subseteq listed /\ served \subseteq Streams
      /\ ListHead \notin Streams /\ NULL \notin Streams /\ adds \in Int
      /\ \A t \in Streams : added[t] \in Int /\ added[t] <= adds
  BY <1>1, ListTyped, IdlerAssumption DEF TypeOK, Stamped
<1>4. added'[s] = adds + 1 /\ \A t \in Streams : t # s => added'[t] = added[t]
  BY <1>1 DEF TypeOK
<1>5. /\ fd' \in [Streams -> Fds \cup {NoFd}] /\ fd'[s] \in Fds
      /\ \A t \in listed : fd'[t] = fd[t]
  <2>1. CASE fd[s] # NoFd /\ UNCHANGED fd
    BY <1>1, <2>1 DEF TypeOK
  <2>2. CASE \E n \in Fds : fd' = [fd EXCEPT ![s] = n]
    BY <1>1, <1>3, <2>2 DEF TypeOK
  <2> QED
    BY <2>1, <2>2 DEF AddStream
<1>6. TypeOK'
  <2>1. First \in Streams \cup {NULL}
    BY <1>1 DEF TypeOK, First
  <2>2. next' \in [Streams \cup {ListHead} -> Streams \cup {NULL}]
    BY <1>1, <2>1 DEF InsertHead, TypeOK
  <2>3. prev' \in [Streams -> Streams \cup {ListHead, NULL}]
    BY <1>1 DEF InsertHead, TypeOK
  <2>4. added' \in [Streams -> 0..MaxAdds] /\ adds' \in 0..MaxAdds
    BY <1>1, IdlerAssumption DEF TypeOK
  <2> QED
    BY <1>1, <1>2, <1>3, <1>5, <2>2, <2>3, <2>4 DEF TypeOK
<1>7. ListLinked'
  BY <1>1, Adding
<1>8. Opened'
  BY <1>1, <1>5 DEF Opened
<1>9. Stamped'
  <2>1. \A t \in Streams : added'[t] <= adds'
    BY <1>1, <1>3, <1>4
  <2>2. \A t, u \in listed : added'[t] = added'[u] => t = u
    BY <1>1, <1>3, <1>4 DEF Stamped
  <2>3. \A t \in listed : added'[t] # added'[s]
    BY <1>1, <1>3, <1>4
  <2> QED
    BY <1>1, <2>1, <2>2, <2>3 DEF Stamped
<1>10. CASE phase = "idle"
  BY <1>2, <1>6, <1>7, <1>8, <1>9, <1>10, OutOfRound DEF IInv, Lists
<1>11. CASE phase = "served"
  <2>1. InHand /\ InHand' /\ phase' # "scanning" /\ phase' # "asking"
    BY <1>2, <1>11 DEF InHand
  <2>2. /\ current \in Streams /\ LeadsOn(current)
        /\ \A t \in due \ served : added[t] < added[current]
        /\ \A t \in due : NeedsAttention(t)
        /\ \A t \in served : added[current] <= added[t]
        /\ \A t \in listed : added[t] < added[current] /\ NeedsAttention(t) => t \in due
    BY <2>1 DEF IInv, Rounds, HandLinked, Ahead, Fresh
  <2>3. /\ added'[current] = added[current] /\ added[current] \in Int
        /\ next'[current] = next[current]
    BY <1>1, <1>3, <1>4, <2>2 DEF InsertHead, TypeOK
  <2>4. HandLinked'
    <3>1. \A t \in listed \cup {s} : added'[t] < added'[current] <=> t \in listed /\ added[t] < added[current]
      BY <1>1, <1>3, <1>4, <2>2, <2>3
    <3>2. current # ListHead
      BY <1>3, <2>2
    <3>3. Behind(current)' = Behind(current)
      BY <1>1, <1>2, <3>1, <3>2 DEF Behind
    <3>4. \A t \in Behind(current) : added'[t] = added[t]
      BY <1>1, <1>3, <1>4 DEF Behind
    <3> QED
      BY <1>2, <2>2, <2>3, <3>3, <3>4 DEF HandLinked, LeadsOn
  <2>5. \A t \in listed : NeedsAttention(t)' <=> NeedsAttention(t)
    BY <1>2, <1>5 DEF NeedsAttention
  <2>6. Ahead'
    <3>1. \A t \in due \ served : added'[t] < added'[current]
      BY <1>1, <1>3, <1>4, <2>2, <2>3
    <3> QED
      BY <1>2, <1>3, <2>1, <2>2, <2>5, <3>1 DEF Ahead
  <2>7. Fresh'
    <3>1. \A t \in served : added'[current] <= added'[t]
      BY <1>3, <1>4, <2>2, <2>3
    <3>2. \A t \in listed \cup {s} : added'[t] < added'[current] => t \in listed /\ added[t] < added[current]
      BY <1>1, <1>3, <1>4, <2>2, <2>3
    <3> QED
      BY <1>1, <1>2, <2>1, <2>2, <2>5, <3>1, <3>2 DEF Fresh
  <2>8. CursorListed'
    BY <2>1 DEF CursorListed
  <2> QED
    BY <1>6, <1>7, <1>8, <1>9, <2>4, <2>6, <2>7, <2>8 DEF IInv, Lists, Rounds
<1> QED
  BY <1>10, <1>11 DEF AddStream, Free

(* A removal leaves the link of the stream in the hand what it was.         *)
LEMMA RemoveKeeps == ASSUME IInv, NEW s \in Streams, RemoveStream(s) PROVE IInv'
<1>1. /\ Lists /\ TypeOK /\ Stamped /\ Opened /\ ListLinked /\ s \in listed
      /\ Unlink(s) /\ listed' = listed \ {s} /\ due' = due \ {s}
      /\ current \notin listed \cup {NULL} => s # next[current]
      /\ UNCHANGED <<setVars, added, adds, fd, readable, queued, phase, cursor, current, served>>
  BY DEF RemoveStream, MayRemove, IInv, Lists
<1>2. read_fds' = read_fds /\ write_fds' = write_fds
  BY <1>1 DEF setVars
<1>3. /\ listed \subseteq Streams /\ due \subseteq listed
      /\ ListHead \notin Streams /\ NULL \notin Streams
  BY <1>1, IdlerAssumption DEF TypeOK
<1>4. ListLinked' /\ \A o \in Streams : o \notin listed \ {s} => next'[o] = next[o]
  BY <1>1, Removing
<1>5. TypeOK'
  <2>1. prev[s] \in Streams \cup {ListHead} /\ next[s] \in Streams \cup {NULL}
    BY <1>1, <1>3, OneOwner DEF TypeOK
  <2>2. next' \in [Streams \cup {ListHead} -> Streams \cup {NULL}]
    BY <1>1, <2>1 DEF Unlink, TypeOK
  <2>3. prev' \in [Streams -> Streams \cup {ListHead, NULL}]
    BY <1>1, <2>1 DEF Unlink, PrevWithout, TypeOK
  <2> QED
    BY <1>1, <1>2, <1>3, <2>2, <2>3 DEF TypeOK
<1>6. Opened' /\ Stamped'
  BY <1>1 DEF Opened, Stamped
<1>7. CASE phase = "idle"
  BY <1>1, <1>4, <1>5, <1>6, <1>7, OutOfRound DEF IInv, Lists
<1>8. CASE phase = "served"
  <2>1. InHand /\ InHand' /\ phase' # "scanning" /\ phase' # "asking"
    BY <1>1, <1>8 DEF InHand
  <2>2. /\ current \in Streams /\ LeadsOn(current)
        /\ \A t \in due \ served : added[t] < added[current]
        /\ \A t \in due : NeedsAttention(t)
        /\ \A t \in served : added[current] <= added[t]
        /\ \A t \in listed : added[t] < added[current] /\ NeedsAttention(t) => t \in due
    BY <2>1 DEF IInv, Rounds, HandLinked, Ahead, Fresh
  <2>3. LeadsOn(current)'
    <3>1. CASE current \in listed \ {s}
      BY <1>1, <1>4, <3>1 DEF ListLinked
    <3>2. CASE current \notin listed \ {s}
      <4>1. next'[current] = next[current] /\ next[current] # s
        BY <1>1, <1>3, <1>4, <2>2, <3>2, OneOwner
      <4>2. ASSUME NEW o \in Streams, o = current
            PROVE  LeadsOn(o)'
        BY <1>1, <2>2, <4>1, <4>2, LeftBehind
      <4> QED
        BY <1>1, <2>2, <4>2
    <3> QED
      BY <3>1, <3>2
  <2>4. HandLinked' /\ CursorListed'
    BY <1>1, <2>1, <2>2, <2>3 DEF HandLinked, CursorListed
  <2>5. \A t : NeedsAttention(t)' <=> NeedsAttention(t)
    BY <1>1, <1>2 DEF NeedsAttention
  <2>6. Ahead'
    BY <1>1, <2>1, <2>2, <2>5 DEF Ahead
  <2>7. Fresh'
    BY <1>1, <2>1, <2>2, <2>5 DEF Fresh
  <2> QED
    BY <1>4, <1>5, <1>6, <2>4, <2>6, <2>7 DEF IInv, Lists, Rounds
<1> QED
  BY <1>7, <1>8 DEF RemoveStream, Free

(* A stream that is deleted has left the list and the hand before.          *)
LEMMA DeleteKeeps == ASSUME IInv, NEW s \in Streams, DeleteStream(s) PROVE IInv'
<1>1. /\ TypeOK /\ Opened /\ s \notin listed
      /\ fd' = [fd EXCEPT ![s] = NoFd]
      /\ readable' \subseteq Streams /\ queued' \subseteq Streams
      /\ UNCHANGED <<listVars, setVars, roundVars>>
  BY DEF DeleteStream, MayDelete, IInv, Lists, TypeOK
<1>2. /\ next' = next /\ prev' = prev /\ listed' = listed /\ added' = added /\ adds' = adds
      /\ read_fds' = read_fds /\ write_fds' = write_fds /\ phase' = phase
      /\ cursor' = cursor /\ current' = current /\ due' = due /\ served' = served
  BY <1>1 DEF listVars, setVars, roundVars
<1>3. \A t \in listed : fd'[t] = fd[t]
  BY <1>1 DEF TypeOK
<1>4. TypeOK'
  BY <1>1, <1>2 DEF TypeOK
<1>5. ListLinked' /\ Stamped'
  BY <1>2 DEF IInv, Lists, ListLinked, LeadsOn, Behind, Stamped
<1>6. Opened'
  BY <1>1, <1>2, <1>3 DEF Opened
<1>7. CursorListed' /\ HandLinked'
  BY <1>2 DEF IInv, Rounds, CursorListed, HandLinked, InHand, LeadsOn, Behind
<1>8. \A t \in listed : NeedsAttention(t)' <=> NeedsAttention(t)
  BY <1>2, <1>3 DEF NeedsAttention
<1>9. due \subseteq listed /\ (InHand' <=> InHand)
  BY <1>1, <1>2 DEF TypeOK, InHand
<1>10. Ahead'
  BY <1>2, <1>8, <1>9 DEF IInv, Rounds, Ahead
<1>11. Fresh'
  BY <1>2, <1>8, <1>9 DEF IInv, Rounds, Fresh
<1> QED
  BY <1>4, <1>5, <1>6, <1>7, <1>10, <1>11 DEF IInv, Lists, Rounds

(* Nothing is listed when an idler is new.                                  *)
LEMMA DeleteIdlerKeeps == ASSUME IInv, DeleteIdler PROVE IInv'
<1>1. /\ TypeOK /\ Stamped /\ listed' = {} /\ due' = {}
      /\ next' = [next EXCEPT ![ListHead] = NULL]
      /\ prev' = [s \in Streams |-> IF s \in listed THEN ListHead ELSE prev[s]]
      /\ UNCHANGED <<setVars, added, adds, fd, readable, queued, phase, cursor, current, served>>
      /\ phase' = "idle"
  BY DEF DeleteIdler, IInv, Lists
<1>2. read_fds' = read_fds /\ write_fds' = write_fds
  BY <1>1 DEF setVars
<1>3. TypeOK'
  BY <1>1, <1>2 DEF TypeOK
<1>4. ListLinked'
  BY <1>1 DEF ListLinked, LeadsOn, Behind, TypeOK
<1>5. Opened' /\ Stamped'
  BY <1>1 DEF Opened, Stamped
<1> QED
  BY <1>1, <1>3, <1>4, <1>5, OutOfRound DEF IInv, Lists

-----------------------------------------------------------------------------
(* The invariant.                                                          *)

(* The invariant holds at first,                                            *)
LEMMA Starts == Init => IInv
<1> SUFFICES ASSUME Init PROVE IInv
  OBVIOUS
<1>1. TypeOK
  BY IdlerAssumption DEF Init, TypeOK
<1>2. ListLinked
  BY DEF Init, ListLinked, LeadsOn, Behind
<1>3. Opened /\ Stamped
  BY DEF Init, Opened, Stamped
<1>4. Rounds
  BY DEF Init, Rounds, CursorListed, HandLinked, Ahead, Fresh, InHand
<1> QED
  BY <1>1, <1>2, <1>3, <1>4 DEF IInv, Lists

(* and every step keeps it.                                                 *)
LEMMA Kept == IInv /\ [Next]_vars => IInv'
<1> SUFFICES ASSUME IInv, [Next]_vars
             PROVE  IInv'
  OBVIOUS
<1>1. /\ readable \subseteq Streams /\ queued \subseteq Streams /\ TypeOK
      /\ First \in listed \cup {NULL}
  <2>1. LeadsOn(ListHead)
    BY DEF IInv, Lists, ListLinked
  <2> QED
    BY <2>1 DEF IInv, Lists, TypeOK, LeadsOn, Behind, First
<1>2. CASE StartWait
  <2>1. /\ UNCHANGED <<listVars, fd>> /\ phase' = "asking" /\ cursor' \in listed \cup {NULL}
    BY <1>1, <1>2 DEF StartWait
  <2>2. TypeOK'
    BY <1>1, <1>2, <2>1 DEF StartWait, TypeOK, listVars
  <2>3. Rounds'
    BY <2>1 DEF Rounds, CursorListed, HandLinked, Ahead, Fresh, InHand, listVars
  <2> QED
    BY <2>1, <2>2, <2>3, ListStays DEF IInv, Lists
<1>3. CASE Prepare
  BY <1>3, PrepareKeeps
<1>4. CASE Select
  BY <1>4, SelectKeeps
<1>5. CASE WaitFails
  <2>1. UNCHANGED <<listVars, fd>> /\ phase' = "idle"
    BY <1>5 DEF WaitFails
  <2>2. TypeOK'
    BY <1>1, <1>5, <2>1 DEF WaitFails, TypeOK, listVars, setVars
  <2> QED
    BY <2>1, <2>2, OutOfRound, ListStays DEF IInv, Lists
<1>6. CASE GetNext
  BY <1>6, GetNextKeeps
<1>7. CASE Scan
  BY <1>7, ScanKeeps
<1>8. CASE Serve
  <2>1. /\ UNCHANGED <<listVars, setVars, fd, cursor, current, due, served>>
        /\ phase = "serving" /\ phase' = "served"
        /\ readable' \subseteq Streams /\ queued' \subseteq Streams
    BY <1>1, <1>8 DEF Serve
  <2> QED
    BY <2>1, RoundStays
<1>9. CASE DeleteIdler
  BY <1>9, DeleteIdlerKeeps
<1>10. ASSUME NEW s \in Streams, AddStream(s)
       PROVE  IInv'
  BY <1>10, AddKeeps
<1>11. ASSUME NEW s \in Streams, RemoveStream(s)
       PROVE  IInv'
  BY <1>11, RemoveKeeps
<1>12. ASSUME NEW s \in Streams, DeleteStream(s)
       PROVE  IInv'
  BY <1>12, DeleteKeeps
<1>13. ASSUME NEW s \in Streams, Queue(s) \/ Arrive(s)
       PROVE  IInv'
  <2>1. /\ UNCHANGED <<listVars, setVars, roundVars, fd>>
        /\ readable' \subseteq Streams /\ queued' \subseteq Streams
    BY <1>1, <1>13 DEF Queue, Arrive
  <2> QED
    BY <2>1, RoundStays DEF roundVars
<1>14. CASE UNCHANGED vars
  <2>1. /\ UNCHANGED <<listVars, setVars, roundVars, fd>>
        /\ readable' \subseteq Streams /\ queued' \subseteq Streams
    BY <1>1, <1>14 DEF vars, listVars, setVars, roundVars
  <2> QED
    BY <2>1, RoundStays DEF roundVars
<1> QED
  BY <1>2, <1>3, <1>4, <1>5, <1>6, <1>7, <1>8, <1>9, <1>10, <1>11, <1>12, <1>13, <1>14 DEF Next

(* Every reachable state is one of the invariant.                           *)
LEMMA Invariant == Spec => []IInv
  BY Starts, Kept, PTL DEF Spec

(* The state of the idler is well typed; in particular what is due is in    *)
(* the list.                                                                *)
THEOREM IdlerTypeCorrect == Spec => []TypeOK
<1>1. IInv => TypeOK
  BY DEF IInv, Lists
<1> QED
  BY <1>1, Invariant, PTL

(* However many streams are added and removed, in whatever order, the links *)
(* are those of the list of the streams that are left.                      *)
THEOREM ListCorrect == Spec => []ListLinked
<1>1. IInv => ListLinked
  BY DEF IInv, Lists
<1> QED
  BY <1>1, Invariant, PTL

(* The iterator returns no stream twice in a round, and only those that     *)
(* select has reported and that are still in the list.                      *)
THEOREM NoneServedTwice == Spec => ServedOnce
<1>1. IInv /\ [Next]_vars => [phase = "scanning" /\ phase' = "serving" =>
                                current' \notin served /\ current' \in due]_vars
  <2> SUFFICES ASSUME IInv, Scan, phase = "scanning", phase' = "serving"
               PROVE  current' \notin served /\ current' \in due
    <3>1. ASSUME Next, phase = "scanning", phase' = "serving"
          PROVE  Scan
      BY <3>1 DEF Next, StartWait, Prepare, Select, WaitFails, GetNext, Serve, DeleteIdler,
                  AddStream, RemoveStream, DeleteStream, Queue, Arrive, Free
    <3> QED
      BY <3>1
  <2>1. cursor # NULL /\ NeedsAttention(cursor) /\ current' = cursor
    BY DEF Scan
  <2>2. cursor \in listed /\ added[cursor] \in Int
    BY <2>1, ListTyped DEF IInv, Lists, Rounds, CursorListed
  <2>3. /\ \A t \in served : added[cursor] < added[t]
        /\ \A s \in listed : added[s] <= added[cursor] /\ NeedsAttention(s) => s \in due
    BY <2>1 DEF IInv, Rounds, Fresh
  <2> QED
    BY <2>1, <2>2, <2>3
<1> QED
  BY <1>1, Invariant, PTL DEF Spec, ServedOnce

(* When the iterator returns NULL, it has returned all of these.            *)
THEOREM AllServed == Spec => ServedAll
<1>1. IInv /\ [Next]_vars => [phase = "scanning" /\ phase' = "idle" => due \subseteq served]_vars
  <2> SUFFICES ASSUME IInv, Scan, phase = "scanning", phase' = "idle"
               PROVE  due \subseteq served
    <3>1. ASSUME Next, phase = "scanning", phase' = "idle"
          PROVE  Scan
      BY <3>1 DEF Next, StartWait, Prepare, Select, WaitFails, GetNext, Serve, DeleteIdler,
                  AddStream, RemoveStream, DeleteStream, Queue, Arrive, Free
    <3> QED
      BY <3>1
  <2>1. cursor = NULL
    BY DEF Scan
  <2> QED
    BY <2>1 DEF IInv, Rounds, Ahead
<1> QED
  BY <1>1, Invariant, PTL DEF Spec, ServedAll

=============================================================================
