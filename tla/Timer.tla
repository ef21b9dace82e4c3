------------------------------- MODULE Timer -------------------------------
(***************************************************************************)
(* The timer of mx/timer.h.  The code keeps the start stamp and compares   *)
(* "now - start" with the interval; here a timer keeps its interval and    *)
(* the time left, which a tick of the clock decreases.  An interval of 0   *)
(* means that the timer is stopped, so starting a timer with 0 stops it.   *)
(***************************************************************************)
EXTENDS Naturals

TimerType == [interval : Nat, left : Nat]

Stopped == [interval |-> 0, left |-> 0]

Started(n) == [interval |-> n, left |-> n]

\* timer_restart keeps the interval, so it leaves a stopped timer stopped.
Restarted(t) == [t EXCEPT !.left = t.interval]

Running(t) == t.interval # 0

Expired(t) == Running(t) /\ t.left = 0

\* The timer after one more unit of time; an expired timer stays expired.
Ticked(t) == [t EXCEPT !.left = IF @ = 0 THEN 0 ELSE @ - 1]

=============================================================================
