-------------------------------- MODULE Clock --------------------------------
(***************************************************************************)
(* The clocks of timer.c and a timer of timer.h that reads one of them.    *)
(* Time passes in milliseconds; the program looks at it only when it       *)
(* updates the clocks, with clock_update ("ticks", or "calendar" if it     *)
(* also passes a calendar time) or clock_update_sys ("system").            *)
(*                                                                         *)
(* The counters are of type time_t.  On a machine of 64 bits this has as   *)
(* many, so no program runs long enough to overflow it, and the counters   *)
(* have no limit here.  The comment of clock_update describes the wrap of  *)
(* an unsigned counter of 32 bits, which the code does not have.           *)
(*                                                                         *)
(* The module Timer abstracts from all this: one timer, one clock, one     *)
(* unit.                                                                   *)
(***************************************************************************)
EXTENDS Integers

CONSTANTS
    Second,         \* milliseconds of a second: 1000
    Intervals,      \* arguments of timer_start
    MaxLag,         \* bound on the time between two updates
    MaxSleep,       \* bound on the seconds the system hibernates
    CalendarStart,  \* the calendar time when the program starts
    EndOfTime       \* bound on the milliseconds of a behaviour

ASSUME ClockAssumption ==
    /\ Second \in Nat \ {0} /\ CalendarStart \in Nat \ {0}
    /\ MaxLag \in Nat /\ MaxSleep \in Nat /\ EndOfTime \in Nat
    /\ Intervals \subseteq Nat

Drivers == {"ticks", "calendar", "system"}

\* TIMER_MS, TIMER_SEC and TIMER_CHRONO
Units == {"MS", "SEC", "CHRONO"}

VARIABLES
    driver,         \* how the program updates the clocks
    now,            \* milliseconds that have passed
    slept,          \* seconds of hibernation, which only a calendar counts
    clock_ms, clock_s, clock_chrono,
    seen,           \* now and slept at the last update
    clockTimer,     \* start, interval, and flags: the unit and TIMER_UPDATE
    begun           \* seen when the timer was started

clockVars == <<driver, now, slept, clock_ms, clock_s, clock_chrono, seen, clockTimer, begun>>

readings == <<clock_ms, clock_s, clock_chrono, seen>>

-----------------------------------------------------------------------------
(* timer.c.                                                                *)

Calendar == CalendarStart + (now \div Second) + slept

\* Mutation of SecondsAfter: what is left of a second is dropped.
SecondsOfStep(ms) == clock_s + (ms \div Second)

SecondsAfter(ms) == clock_s + (((clock_ms % Second) + ms) \div Second)

\* clock_update
ClockUpdate(ms, chrono) ==
    /\ clock_s' = IF ms > 0 THEN SecondsAfter(ms) ELSE clock_s
    /\ clock_ms' = clock_ms + ms
    /\ clock_chrono' = chrono

\* clock_update_sys
ClockUpdateSys ==
    /\ clock_s' = now \div Second
    /\ clock_ms' = now
    /\ clock_chrono' = Calendar

\* clock_get_milis, clock_get_seconds, clock_get_chrono
Reading(unit, ms, s, chrono) ==
    CASE unit = "MS"     -> ms
      [] unit = "SEC"    -> s
      [] unit = "CHRONO" -> IF chrono # 0 THEN chrono ELSE s

\* timer_tstamp, before and after the update that TIMER_UPDATE asks for
Stamp(unit) == Reading(unit, clock_ms, clock_s, clock_chrono)

\* Mutation of NextStamp: the timer starts from the clock as it was before the update.
StampBeforeUpdate(unit) == Stamp(unit)

NextStamp(unit) == Reading(unit, clock_ms', clock_s', clock_chrono')

\* timer_value
Value(t) == Stamp(t.unit) - t.start

\* Mutation of TimerExpired: a timer that is just due has not expired.
TimerExpiredAfter(t) == t.interval # 0 /\ Value(t) > t.interval

TimerExpired(t) == t.interval # 0 /\ Value(t) >= t.interval

Idle == [start |-> 0, interval |-> 0, unit |-> "MS", update |-> FALSE]

-----------------------------------------------------------------------------
ClockInit ==
    /\ driver \in Drivers
    /\ now = 0 /\ slept = 0
    /\ clock_ms = 0 /\ clock_s = 0 /\ clock_chrono = 0
    /\ seen = [ms |-> 0, slept |-> 0, chrono |-> FALSE] /\ begun = seen
    /\ clockTimer = Idle

PassTime ==
    /\ now < EndOfTime /\ now - seen.ms < MaxLag
    /\ now' = now + 1
    /\ UNCHANGED <<driver, slept, readings, clockTimer, begun>>

Hibernate ==
    /\ slept < MaxSleep
    /\ slept' = slept + 1
    /\ UNCHANGED <<driver, now, readings, clockTimer, begun>>

Seen(chrono) == [ms |-> now, slept |-> slept, chrono |-> chrono]

ReadClocks ==
    /\ \/ driver = "ticks" /\ ClockUpdate(now - seen.ms, 0)
       \/ driver = "calendar" /\ ClockUpdate(now - seen.ms, Calendar)
       \/ driver = "system" /\ ClockUpdateSys
    /\ seen' = Seen(driver # "ticks")

UpdateClocks == ReadClocks /\ UNCHANGED <<driver, now, slept, clockTimer, begun>>

\* TIMER_UPDATE asks the system, so only a program that does the same uses it.
StartTimer ==
    \E unit \in Units, update \in BOOLEAN, interval \in Intervals :
        /\ update => driver = "system"
        /\ IF update THEN ReadClocks ELSE UNCHANGED readings
        /\ clockTimer' = [start |-> NextStamp(unit), interval |-> interval,
                          unit |-> unit, update |-> update]
        /\ begun' = seen'
        /\ UNCHANGED <<driver, now, slept>>

RestartTimer ==
    /\ IF clockTimer.update THEN ReadClocks ELSE UNCHANGED readings
    /\ clockTimer' = [clockTimer EXCEPT !.start = NextStamp(clockTimer.unit)]
    /\ begun' = seen'
    /\ UNCHANGED <<driver, now, slept>>

\* timer_value, timer_remaining, timer_expired: reading a timer updates the clocks.
ReadTimer ==
    /\ clockTimer.update
    /\ ReadClocks
    /\ UNCHANGED <<driver, now, slept, clockTimer, begun>>

StopTimer ==
    /\ clockTimer' = Idle
    /\ UNCHANGED <<driver, now, slept, readings, begun>>

ClockNext ==
    \/ PassTime \/ Hibernate \/ UpdateClocks
    \/ StartTimer \/ RestartTimer \/ ReadTimer \/ StopTimer

ClockSpec == ClockInit /\ [][ClockNext]_clockVars

-----------------------------------------------------------------------------
(* Properties.                                                             *)

\* The clock of seconds shows the whole seconds of all the milliseconds that have
\* passed, in however small parts clock_update was told of them.
SecondsFollow == clock_s = seen.ms \div Second

\* What the clock of the timer has counted since it was started, in
\* milliseconds: the calendar goes on while the system sleeps.
Counted(until) ==
    (until.ms - begun.ms)
    + (IF clockTimer.unit = "CHRONO" /\ seen.chrono THEN (until.slept - begun.slept) * Second ELSE 0)

Unit == IF clockTimer.unit = "MS" THEN 1 ELSE Second

\* A calendar timer that was started before the program knew the calendar.
Uprooted == clockTimer.unit = "CHRONO" /\ seen.chrono # begun.chrono

\* A timer expires when its interval has passed since the clocks were last
\* updated before it was started, or less than one of its units earlier.
NeverEarly ==
    TimerExpired(clockTimer) /\ ~Uprooted =>
        Counted(seen) > (clockTimer.interval - 1) * Unit

\* An update of the clocks is enough to see that a timer is due, however late it
\* comes and by whatever steps the clocks were updated before.
NeverLate ==
    clockTimer.interval # 0 /\ ~TimerExpired(clockTimer) /\ ~Uprooted =>
        Counted(seen) < clockTimer.interval * Unit

\* The clocks and their timers tell the time, to a unit, in whatever order time
\* passes, clocks are updated and timers started.
TimersKeepTime == SecondsFollow /\ NeverEarly /\ NeverLate

=============================================================================
