----------------------------- MODULE ZonedTime -----------------------------
(***************************************************************************)
(* Instants and what clocks show of them (ui/src/lib/timezone.tsx).  Time  *)
(* is counted in steps of a clock, DaySteps of them to a day; a zone is    *)
(* its offset from UTC before and after one transition.  Transitions are   *)
(* months apart, a conversion looks at instants two days apart at most, so *)
(* one is all it can meet.                                                 *)
(***************************************************************************)
EXTENDS Integers

CONSTANT DaySteps

ASSUME DayAssumption == DaySteps \in Nat \ {0}

Zone == [transition : Int, before : Int, after : Int]

\* offsetAt
Offset(z, instant) == IF instant < z.transition THEN z.before ELSE z.after

\* zonedDateTimeValue: the wall clock of z at an instant.
ZonedDateTimeValue(z, instant) == instant + Offset(z, instant)

\* Mutant of DateFromZonedDateTime: the offset is not evaluated again.
DateFromOneOffset(z, wall) == wall - Offset(z, wall)

\* The offset is that of the wall clock read as UTC, evaluated again at the
\* instant this makes of it.
DateFromZonedDateTime(z, wall) == wall - Offset(z, wall - Offset(z, wall))

\* A wall clock that z shows at some instant: not one a transition skips.
Exists(z, wall) ==
    \E offset \in {z.before, z.after} : ZonedDateTimeValue(z, wall - offset) = wall

Day(wall) == wall \div DaySteps
Time(wall) == wall % DaySteps
WallClock(day, time) == day * DaySteps + time

\* A JavaScript Date made of a wall clock in the zone of the browser shows that
\* wall clock, or a later one if the zone skips it.
LocalWallClock(browser, wall) ==
    IF Exists(browser, wall) THEN wall ELSE wall + browser.after - browser.before

\* calendarDateFromZonedDateTime
CalendarDate(z, browser, wall) ==
    LocalWallClock(browser, ZonedDateTimeValue(z, DateFromZonedDateTime(z, wall)))
=============================================================================
