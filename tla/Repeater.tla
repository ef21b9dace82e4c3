------------------------------ MODULE Repeater ------------------------------
(***************************************************************************)
(* struct repeater (repeater.c) with the random back-off of rand.c: a      *)
(* program that tries something again and again, counts its attempts and   *)
(* waits longer after each.  Time is that of Timer, in seconds.            *)
(*                                                                         *)
(* Nothing in src/ uses a repeater.  The program here does what its        *)
(* operations are for: while the repeater is neither waiting nor exhausted *)
(* it makes an attempt and marks it, and a failed one makes it wait.       *)
(***************************************************************************)
EXTENDS Timer

CONSTANTS
    RepeaterLimits,     \* arguments of repeater_set_limit, 0 for no limit
    RepeaterTimeouts,   \* arguments of repeater_set_timeout and repeater_postpone
    MaxTimeouts,        \* arguments of repeater_back_off, 0 for no maximum
    TimeoutBound,       \* bound on the timeouts of a behaviour
    CounterSize         \* where the attempt counter wraps

ASSUME RepeaterAssumption ==
    /\ RepeaterLimits \subseteq Nat /\ RepeaterTimeouts \subseteq Nat
    /\ MaxTimeouts \subseteq Nat /\ TimeoutBound \in Nat
    /\ CounterSize \in Nat \ {0}

VARIABLES
    counter, limit, timeout, timer,     \* struct repeater
    trying,     \* an attempt was marked and its outcome is not known yet
    \* the last wait: the seconds asked for, those that have passed, and the
    \* maximum given to repeater_back_off
    asked, waited, maximum

waitVars == <<asked, waited, maximum>>

repeaterVars == <<counter, limit, timeout, timer, trying, waitVars>>

-----------------------------------------------------------------------------
(* rand.c.                                                                 *)

\* What the random part may add to a time.
RandomParts(val, increased) ==
    IF increased > 4 THEN 0 .. val \div 4 ELSE {0}

\* Mutation of Increased: the maximum is the lower bound.
IncreasedUnbounded(val, max) ==
    LET increased == val + ((val + 2) \div 2)
    IN  {increased + r : r \in RandomParts(val, increased)}

\* The values rand_time_increase may leave in *val.  A value that has reached
\* the maximum is left alone, also if it is above.
Increased(val, max) ==
    LET increased == val + ((val + 2) \div 2)
        Bounded(t) == IF max # 0 /\ t >= max THEN max ELSE t
    IN  IF max # 0 /\ val >= max THEN {val}
        ELSE {Bounded(increased + r) : r \in RandomParts(val, increased)}

-----------------------------------------------------------------------------
(* repeater.c.                                                             *)

IsExhausted == limit > 0 /\ counter >= limit

IsWaiting == Running(timer) /\ ~Expired(timer)

\* repeater_wait
StartWaiting == timer' = Started(timeout') /\ asked' = timeout' /\ waited' = 0

RepeaterInit ==
    /\ counter = 0 /\ limit = 0 /\ timeout = 1
    /\ timer = Stopped
    /\ trying = FALSE /\ asked = 0 /\ waited = 0 /\ maximum = 0

SetLimit ==
    /\ limit' \in RepeaterLimits
    /\ UNCHANGED <<counter, timeout, timer, trying, waitVars>>

SetTimeout ==
    /\ timeout' \in RepeaterTimeouts
    /\ UNCHANGED <<counter, limit, timer, trying, waitVars>>

\* The program tries again: repeater_mark_attempt.
MarkAttempt ==
    /\ ~trying /\ ~IsExhausted /\ ~IsWaiting
    /\ counter' = (counter + 1) % CounterSize
    /\ trying' = TRUE
    /\ UNCHANGED <<limit, timeout, timer, waitVars>>

Failed == trying /\ trying' = FALSE /\ UNCHANGED <<counter, limit>>

\* The attempt failed: wait as long as the last time, for a time that the
\* program chooses, or longer.
Wait ==
    /\ Failed
    /\ UNCHANGED timeout
    /\ StartWaiting /\ maximum' = 0

\* Mutation of Postpone: the timeout is stored after the timer is started.
PostponeLate ==
    /\ Failed
    /\ timeout' \in RepeaterTimeouts
    /\ timer' = Started(timeout) /\ asked' = timeout' /\ waited' = 0 /\ maximum' = 0

Postpone ==
    /\ Failed
    /\ timeout' \in RepeaterTimeouts
    /\ StartWaiting /\ maximum' = 0

BackOff ==
    /\ Failed
    /\ maximum' \in MaxTimeouts
    /\ timeout' \in Increased(timeout, maximum') /\ timeout' <= TimeoutBound
    /\ StartWaiting

\* The attempt succeeded: repeater_reset.  The timeout stays what it was.
ResetRepeater ==
    /\ trying /\ trying' = FALSE
    /\ counter' = 0 /\ timer' = Stopped
    /\ asked' = 0 /\ waited' = 0 /\ maximum' = 0
    /\ UNCHANGED <<limit, timeout>>

PassSecond ==
    /\ IsWaiting
    /\ timer' = Ticked(timer)
    /\ waited' = waited + 1
    /\ UNCHANGED <<counter, limit, timeout, trying, asked, maximum>>

RepeaterNext ==
    \/ SetLimit \/ SetTimeout \/ MarkAttempt \/ Wait \/ Postpone \/ BackOff
    \/ ResetRepeater \/ PassSecond

RepeaterSpec == RepeaterInit /\ [][RepeaterNext]_repeaterVars

-----------------------------------------------------------------------------
(* Properties.                                                             *)

\* A new attempt is made only when the time that the program asked for after
\* the last one has passed, whatever is set meanwhile.
Spaced == trying => waited >= asked

\* A longer wait is longer, up to the maximum, and no wait is over the maximum
\* unless the timeout was before.
BacksOff ==
    [][BackOff =>
        /\ maximum' = 0 \/ timeout < maximum' => timeout' > timeout
        /\ timeout' > maximum' /\ maximum' # 0 => timeout' = timeout]_repeaterVars

\* A repeater paces its program: attempts are far enough apart, and back-offs
\* grow up to their maximum (repeater.c, rand.c).
RepeaterPaces == []Spaced /\ BacksOff

=============================================================================
