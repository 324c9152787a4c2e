-------------------------- MODULE ReminderSchedule --------------------------
(***************************************************************************)
(* When a reminder or task is due next: next_due of app/reminders.py, on   *)
(* the wall clock of the user's time zone, which may jump once, at Change, *)
(* by z ticks: z > 0 is the start of summer time, z < 0 its end.           *)
(*                                                                         *)
(* A tick is the unit of time.  An instant counts ticks of universal time; *)
(* a wall time counts ticks of the user's clock, from a midnight that      *)
(* starts a week.                                                          *)
(***************************************************************************)
EXTENDS Integers

CONSTANTS TicksPerDay, DaysPerWeek,
          Change,   \* the instant of the jump
          None      \* a field that is not given; no due time (ValueError)

ASSUME ScheduleAssumption ==
  /\ TicksPerDay \in Nat \ {0} /\ DaysPerWeek \in Nat \ {0} /\ Change \in Nat
  /\ None \notin Int

\* The fields of an item that say when it fires.  (A field that does not parse is
\* refused before anything has changed.)
Times == 0 .. TicksPerDay - 1
Weekdays == 0 .. DaysPerWeek - 1
Spans == Nat \ {0}
Repeats == {"once", "interval", "daily", "weekly"}
Schedules == [repeat : Repeats, at : Nat \cup {None}, time : Times \cup {None},
              days : SUBSET Weekdays, every : Spans \cup {None}]

Once(t)       == [repeat |-> "once", at |-> t, time |-> None, days |-> {}, every |-> None]
Interval(n)   == [repeat |-> "interval", at |-> None, time |-> None, days |-> {}, every |-> n]
Daily(t)      == [repeat |-> "daily", at |-> None, time |-> t, days |-> {}, every |-> None]
Weekly(t, ds) == [repeat |-> "weekly", at |-> None, time |-> t, days |-> ds, every |-> None]
-----------------------------------------------------------------------------
(* The time zone *)

Wall(z, u) == IF u < Change THEN u ELSE u + z

\* Whether u is the second pass of a repeated wall time (datetime.fold).
Fold(z, u) == IF Change <= u /\ u < Change - z THEN 1 ELSE 0

\* astimezone(utc).  A wall time between the two limits exists twice (z < 0), or
\* not at all (z > 0, read with the offset before the jump for fold 0).
Instant(z, w, fold) ==
  LET first == IF z < 0 THEN Change + z ELSE Change
      last  == IF z < 0 THEN Change ELSE Change + z
  IN  IF w < first \/ (w < last /\ fold = 0) THEN w ELSE w - z

Midnight(w) == w - (w % TicksPerDay)
Weekday(w) == (w \div TicksPerDay) % DaysPerWeek
-----------------------------------------------------------------------------
(* next_due *)

\* Mutant: the present minute counts as still to come.
Passed_Strictly(candidate, wall) == candidate < wall

Passed(candidate, wall) == candidate <= wall

\* Mutant: a day is added to the instant, not to the wall time.
Tomorrow_Elapsed(z, candidate) == Instant(z, candidate, 0) + TicksPerDay

Tomorrow(z, candidate) == Instant(z, candidate + TicksPerDay, 0)

\* replace() keeps the fold of `now`, adding a day drops it.
NextDaily(z, time, now) ==
  LET wall == Wall(z, now)
      candidate == Midnight(wall) + time
  IN  IF Passed(candidate, wall) THEN Tomorrow(z, candidate)
      ELSE Instant(z, candidate, Fold(z, now))

\* Mutants: a week has its seven days; today is not looked at.
Offsets_OneWeek == 0 .. DaysPerWeek - 1
Offsets_FromTomorrow == 1 .. DaysPerWeek

\* range(8): today's weekday comes twice, today and in a week.
Offsets == 0 .. DaysPerWeek

\* Adding the offset drops the fold of `now`, also for today.
NextWeekly(z, time, days, now) ==
  LET wall == Wall(z, now)
      candidate(n) == Midnight(wall) + n * TicksPerDay + time
      open == {n \in Offsets : Weekday(candidate(n)) \in days /\ candidate(n) > wall}
  IN  IF open = {} THEN None
      ELSE Instant(z, candidate(CHOOSE n \in open : \A m \in open : n <= m), 0)

NextDue(z, s, now) ==
  CASE s.repeat = "once"     -> IF s.at # None /\ s.at > now THEN s.at ELSE None
    [] s.repeat = "interval" -> IF s.every # None THEN now + s.every ELSE None
    [] s.repeat = "daily"    -> IF s.time # None THEN NextDaily(z, s.time, now) ELSE None
    [] s.repeat = "weekly"   -> IF s.time # None /\ s.days # {}
                                THEN NextWeekly(z, s.time, s.days, now) ELSE None
=============================================================================
