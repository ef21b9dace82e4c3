------------------------------ MODULE BytePipe ------------------------------
(***************************************************************************)
(* What a stream promises to the program that reads it: the bytes the      *)
(* other side has written, each once and in their order.                   *)
(***************************************************************************)
EXTENDS Naturals, Sequences

CONSTANT MaxLength      \* bytes of one write

VARIABLES
    written,    \* the bytes one side has written
    read        \* those the other side has read

Init == written = <<>> /\ read = <<>>

Write ==
    \E n \in 1..MaxLength :
        /\ written' = written \o [i \in 1..n |-> Len(written) + i]
        /\ UNCHANGED read

Read ==
    \E n \in 1 .. Len(written) - Len(read) :
        /\ read' = SubSeq(written, 1, Len(read) + n)
        /\ UNCHANGED written

Next == Write \/ Read

Spec == Init /\ [][Next]_<<written, read>>

=============================================================================
