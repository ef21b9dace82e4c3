----------------------------- MODULE FrameQueue -----------------------------
(***************************************************************************)
(* The tail queues (TAILQ) the library keeps its frames and slices in, as  *)
(* sequences, and the two operations on them that are not in Sequences:    *)
(* inserting at the head and removing every matching entry.                *)
(*                                                                         *)
(* Removal is stated by rank instead of SelectSeq: entry n of the result   *)
(* is the kept entry that has n kept entries up to it.  The definition is  *)
(* not recursive, so facts about it can be proved (StreamMqttProofs).      *)
(***************************************************************************)
EXTENDS Integers, Sequences, FiniteSets

InsertHead(x, q) == <<x>> \o q

\* Mutation of Matches: the packet id is not compared.
MatchesAnyId(q, type, id) == {k \in DOMAIN q : q[k].type = type}

\* Where the frames of this type and packet id are in q.
Matches(q, type, id) == {k \in DOMAIN q : q[k].type = type /\ q[k].id = id}

\* The members of K that are not above k.
UpTo(K, k) == {j \in K : j <= k}

\* The n-th smallest member of K.
Nth(K, n) == CHOOSE k \in K : Cardinality(UpTo(K, k)) = n

\* q without the entries whose positions are in D.
Without(q, D) ==
    LET K == DOMAIN q \ D
    IN  [n \in 1..Cardinality(K) |-> q[Nth(K, n)]]

\* The entries of q whose positions are in D, in their order.
Only(q, D) == Without(q, DOMAIN q \ D)

=============================================================================
