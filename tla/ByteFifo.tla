------------------------------ MODULE ByteFifo ------------------------------
(***************************************************************************)
(* What a struct buffer promises: a sequence of bytes that grows at its    *)
(* end and is taken from its beginning.  Nothing is said of memory.        *)
(***************************************************************************)
EXTENDS Integers, Sequences

CONSTANT Values     \* what a byte may be

VARIABLES
    content,    \* the bytes in the buffer
    passed      \* the bytes that the last call passed in or out

Put == passed' \in Seq(Values) /\ content' = content \o passed'

Take ==
    \E n \in 0..Len(content) :
        /\ passed' = SubSeq(content, 1, n)
        /\ content' = SubSeq(content, n + 1, Len(content))

Cut ==
    \E n \in 0..Len(content) :
        /\ content' = SubSeq(content, n + 1, Len(content))
        /\ UNCHANGED passed

Empty == content' = <<>> /\ UNCHANGED passed

Copy == passed' \in Seq(Values) /\ content' = passed'

Init == content = <<>> /\ passed = <<>>

Next == Put \/ Take \/ Cut \/ Empty \/ Copy

Spec == Init /\ [][Next]_<<content, passed>>

=============================================================================
