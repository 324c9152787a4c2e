---------------------------- MODULE ReminderClock ----------------------------
(***************************************************************************)
(* next_due against what a repeating schedule means: a user's clock that   *)
(* jumps once, any daily or weekly schedule, and time that goes by.        *)
(***************************************************************************)
EXTENDS ReminderSchedule

CONSTANTS Jump,         \* the clock changes by at most Jump ticks
          LastInstant   \* bound of the runs

\* A change of the clock skips or repeats a day at the most.
ASSUME JumpAssumption == Jump \in 0 .. TicksPerDay /\ LastInstant \in Nat

VARIABLES zone, schedule, instant

clockVars == <<zone, schedule, instant>>

Repeating ==
  {Daily(t) : t \in Times} \cup {Weekly(t, ds) : t \in Times, ds \in (SUBSET Weekdays) \ {{}}}

ClockInit == zone \in -Jump .. Jump /\ schedule \in Repeating /\ instant = 0

\* The day goes by.
Passes == instant < LastInstant /\ instant' = instant + 1 /\ UNCHANGED <<zone, schedule>>

ClockSpec == ClockInit /\ [][Passes]_clockVars

Due == NextDue(zone, schedule, instant)

\* A wall time the schedule asks for.
Wanted(w) == /\ w % TicksPerDay = schedule.time
             /\ schedule.repeat = "weekly" => Weekday(w) \in schedule.days

Matches(u) == Wanted(Wall(zone, u))

\* The hour that comes twice at the end of summer time lies within one day.
RepeatsWithinDay == Midnight(Change - 1) <= Change + zone

\* The docstring of next_due: "Next fire time".  A due time is never in the past,
\* where the scheduler would fire the item at every poll.  Left out is the second
\* pass of a repeated hour: there, next_due reads a wall time of a weekly item, and
\* of a daily one when midnight falls into the hour, as one of the first pass.
DueInFuture ==
  Fold(zone, instant) = 0 \/ (schedule.repeat = "daily" /\ RepeatsWithinDay)
    => Due # None /\ Due > instant

\* No occurrence is skipped (of a repeated wall time, the first counts).
NoneSkipped == \A u \in instant + 1 .. Due - 1 : Fold(zone, u) = 0 => ~Matches(u)

\* The docstring of user_tz: "a 09:00 daily item fires at 09:00 for the user
\* regardless of DST", unless the clock skips that time on that day.
AtWallClock == Matches(Due) \/ (Change <= Due /\ Due < Change + zone)
=============================================================================
