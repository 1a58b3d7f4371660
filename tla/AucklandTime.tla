---------------------------- MODULE AucklandTime ----------------------------
(***************************************************************************)
(* Calendar days of Auckland over a change to or from daylight saving time *)
(* (lib/auckland-time.ts), as the store and the seed compute with them.    *)
(*                                                                         *)
(* An instant is a number in UTC, PerDay of them are 24 hours, and one of  *)
(* them is what the clocks change by.  Auckland is half a day ahead of     *)
(* UTC.  A wall clock is a number too; its day is a quotient.  The code    *)
(* keeps an instant as text, the wall clock followed by its offset, and    *)
(* compares it as text: Text gives the number with the same order.         *)
(***************************************************************************)
EXTENDS Integers, FiniteSetsExt

CONSTANTS
    PerDay,     \* instants of 24 hours
    Summer,     \* the instants of daylight saving time
    MonthDays   \* days of a month

Offset(instant) == PerDay \div 2 + (IF instant \in Summer THEN 1 ELSE 0)

Wall(instant) == instant + Offset(instant)

\* formatDateInAuckland, toDateKey and substr(occurred_at, 1, 10)
DayOf(instant) == Wall(instant) \div PerDay

\* fromZonedTime of date-fns-tz: of an hour that occurs twice it takes the second, an
\* hour that is skipped becomes the one before.
FromZoned(wall) ==
    LET guess == Offset(wall - Offset(wall))
    IN  wall - Max({guess, Offset(wall - guess)})

\* localDateTimeInAucklandIso
LocalDateTime(day, time) == FromZoned(day * PerDay + time)

\* addDaysInAuckland: noon of the day, and days of 24 hours
AddDays(day, n) == DayOf(LocalDateTime(day, PerDay \div 2) + n * PerDay)

\* The text of an instant without milliseconds, as of every record; `.' comes after `+'.
Text(instant) == 4 * Wall(instant) + (IF instant \in Summer THEN 1 ELSE 0)

\* instantInAucklandIso
TextWithMs(instant) == Text(instant) + 2

StartOfDay(day) == Text(LocalDateTime(day, 0))

EndOfDay(day) == TextWithMs(LocalDateTime(day, PerDay - 1))

DateBounds(day) == [start |-> StartOfDay(day), end |-> EndOfDay(day)]

RollingBounds(now) == [start |-> TextWithMs(now - PerDay), end |-> TextWithMs(now)]

MonthStart(day) == day - (day % MonthDays)

MonthBounds(now) ==
    LET first == MonthStart(DayOf(now))
    IN  [start |-> StartOfDay(first), end |-> EndOfDay(AddDays(first + MonthDays, -1))]

\* rollingCalendarWindowStart: days of 24 hours, counted from the instant.  Within an
\* hour of midnight and with a change of the clocks between, it is a day off.
WindowStart(at, days) == DayOf(at - (days - 1) * PerDay)

WindowIsExact(at, days) == WindowStart(at, days) = DayOf(at) - (days - 1)

\* Mutant: what ends with `Z' is taken for a wall clock too.
MigratedAsWall(old) ==
    [utc |-> FromZoned(old.at), wall |-> FromZoned(old.at), date |-> LocalDateTime(old.at, 0)][old.form]

\* migrateWallClockInstant, of the three forms older versions stored: the instant in
\* UTC; the wall clock, whatever offset followed it; and the date alone.
Migrated(old) ==
    [utc  |-> old.at,
     wall |-> FromZoned(old.at),
     date |-> LocalDateTime(old.at, 0)][old.form]

OldForm(form, instant) ==
    [form |-> form,
     at   |-> [utc |-> instant, wall |-> Wall(instant), date |-> DayOf(instant)][form]]

=============================================================================
