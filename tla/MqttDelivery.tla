---------------------------- MODULE MqttDelivery ----------------------------
(***************************************************************************)
(* What one side of a pair of MQTT streams promises the application that   *)
(* publishes: a message of QoS 1 or 2 stays pending until the other        *)
(* application has it or the stream gives it up, and a message of QoS 2 is *)
(* received at most once.  A message may still arrive after it was given   *)
(* up.                                                                     *)
(***************************************************************************)
EXTENDS Naturals

\* Once \subseteq Acknowledged \subseteq Messages.
CONSTANTS
    Messages,
    Acknowledged,   \* messages of QoS 1 and 2
    Once            \* messages of QoS 2

VARIABLES
    published,      \* messages the application has published
    pending,        \* messages the sending stream still takes care of
    givenUp,        \* messages it took care of in vain
    received        \* copies of each message the other application got

vars == <<published, pending, givenUp, received>>

Init ==
    /\ published = {} /\ pending = {} /\ givenUp = {}
    /\ received = [m \in Messages |-> 0]

\* A message that finds nothing in its way is not pending if it needs no
\* acknowledgement.
Publish(m) ==
    /\ m \notin published
    /\ published' = published \cup {m}
    /\ \/ pending' = pending \cup {m}
       \/ m \notin Acknowledged /\ UNCHANGED pending
    /\ UNCHANGED <<givenUp, received>>

Receive(m) ==
    /\ m \in published
    /\ m \in Once => received[m] = 0
    /\ received' = [received EXCEPT ![m] = @ + 1]
    /\ UNCHANGED <<published, pending, givenUp>>

Complete(m) ==
    /\ m \in pending
    /\ received[m] > 0
    /\ pending' = pending \ {m}
    /\ UNCHANGED <<published, givenUp, received>>

GiveUp(m) ==
    /\ m \in pending
    /\ pending' = pending \ {m}
    /\ givenUp' = givenUp \cup {m}
    /\ UNCHANGED <<published, received>>

Next == \E m \in Messages : Publish(m) \/ Receive(m) \/ Complete(m) \/ GiveUp(m)

Spec == Init /\ [][Next]_vars

=============================================================================
