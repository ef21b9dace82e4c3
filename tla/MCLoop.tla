------------------------------- MODULE MCLoop -------------------------------
(***************************************************************************)
(* Small instances for TLC of the select loop and of what it calls when a  *)
(* stream is ready, the stack of streams.  They meet in one predicate,     *)
(* stream_has_outgoing_data (queued of one, HasOutgoing of the other), and *)
(* share no state: a behaviour chooses one of them and steps through it.   *)
(***************************************************************************)
EXTENDS Idler, StreamStack

CONSTANTS s1, s2, s3

VARIABLE part       \* the part whose behaviour this is

loopVars == <<part, vars, stackVars>>

LoopInit ==
    /\ part \in {"idler", "stack"}
    /\ Init /\ StackInit
    /\ part = "idler" => tls = "none"

\* A stack that nobody writes any more may rest; the select loop may not stop.
LoopNext ==
    \/ part = "idler" /\ Next /\ UNCHANGED <<part, stackVars>>
    \/ part = "stack" /\ StackNext /\ UNCHANGED <<part, vars>>
    \/ part = "stack" /\ UNCHANGED loopVars

\* Each part is as fair as its own specification says, the other one rests.
LoopSpec ==
    /\ LoopInit /\ [][LoopNext]_loopVars
    /\ part = "idler" => Fairness
    /\ part = "stack" => StackFairness

-----------------------------------------------------------------------------
(* Values of the constants.                                                *)

MCStreams == {s1, s2, s3}

MCWriters == {s1}

MCFds == 3..5

=============================================================================
