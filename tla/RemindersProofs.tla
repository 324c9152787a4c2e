--------------------------- MODULE RemindersProofs ---------------------------
(***************************************************************************)
(* Proofs about ReminderClock, for every day, week and change of the clock *)
(* by a day at most, and about Reminders, for every set of ids and         *)
(* requests and every calendar.                                            *)
(***************************************************************************)
EXTENDS Reminders, ReminderClock, WellFoundedInduction, TLAPS

-----------------------------------------------------------------------------
(* next_due *)

\* A set of naturals that is not empty has a least element.
LEMMA LeastNatural ==
  ASSUME NEW S \in SUBSET Nat, S # {}
  PROVE  \E n \in S : \A m \in S : n <= m
<1>1. PICK n \in S : \A m \in S : <<m, n>> \notin OpToRel(<, Nat)
  BY WFMin, NatLessThanWellFounded, Zenon
<1>2. \A m \in S : ~(m < n)
  BY <1>1, Zenon DEF OpToRel
<1> QED BY <1>2

\* A wall time is less than a day after its midnight.
LEMMA MidnightBefore ==
  ASSUME NEW w \in Nat
  PROVE  Midnight(w) \in Nat /\ Midnight(w) <= w /\ w < Midnight(w) + TicksPerDay
<1>1. w % TicksPerDay \in 0 .. TicksPerDay - 1 /\ w % TicksPerDay <= w
  BY ScheduleAssumption
<1> QED BY <1>1, ScheduleAssumption DEF Midnight

\* next_due, docstring: "Next fire time": a schedule that is placed at all is
\* placed after the present.
LEMMA NextDueLater ==
  ASSUME NEW s \in Schedules, NEW t \in Nat, NextDue(0, s, t) # None
  PROVE  NextDue(0, s, t) \in Nat /\ NextDue(0, s, t) > t
<1>1. Wall(0, t) = t /\ \A w \in Int, fold \in {0, 1} : Instant(0, w, fold) = w
  BY ScheduleAssumption DEF Wall, Instant
<1>2. Fold(0, t) \in {0, 1}
  BY DEF Fold
<1>3. /\ s.at \in Nat \cup {None} /\ s.time \in Times \cup {None}
      /\ s.every \in Spans \cup {None} /\ s.days \subseteq Weekdays
      /\ s.repeat \in {"once", "interval", "daily", "weekly"}
  BY DEF Schedules, Repeats
<1>4. CASE s.repeat = "once"
  BY <1>3, <1>4 DEF NextDue
<1>5. CASE s.repeat = "interval"
  BY <1>3, <1>5 DEF NextDue, Spans
<1>6. CASE s.repeat = "daily"
  <2>1. s.time # None /\ NextDue(0, s, t) = NextDaily(0, s.time, t)
    BY <1>6 DEF NextDue
  <2>2. s.time \in Nat
    BY <2>1, <1>3, ScheduleAssumption DEF Times
  <2> DEFINE c == Midnight(t) + s.time
  <2>3. c \in Nat /\ c + TicksPerDay \in Nat /\ c + TicksPerDay > t
    BY <2>2, MidnightBefore, ScheduleAssumption
  <2>4. NextDue(0, s, t) = IF c <= t THEN c + TicksPerDay ELSE c
    BY <2>1, <2>3, <1>1, <1>2 DEF NextDaily, Passed, Tomorrow
  <2> QED BY <2>3, <2>4
<1>7. CASE s.repeat = "weekly"
  <2>1. s.time # None /\ NextDue(0, s, t) = NextWeekly(0, s.time, s.days, t)
    BY <1>7 DEF NextDue
  <2>2. s.time \in Nat
    BY <2>1, <1>3, ScheduleAssumption DEF Times
  <2> DEFINE c(n) == Midnight(t) + n * TicksPerDay + s.time
             open == {n \in Offsets : Weekday(c(n)) \in s.days /\ c(n) > t}
             least == CHOOSE n \in open : \A m \in open : n <= m
  <2>3. open # {} /\ NextDue(0, s, t) = Instant(0, c(least), 0)
    BY <2>1, <1>1 DEF NextWeekly
  <2>4. \A n \in Offsets : c(n) \in Nat
    BY <2>2, MidnightBefore, ScheduleAssumption DEF Offsets
  <2>5. least \in open
    <3>1. Offsets \subseteq Nat /\ open \subseteq Nat
      BY ScheduleAssumption DEF Offsets
    <3>2. \E n \in open : \A m \in open : n <= m
      BY <3>1, <2>3, LeastNatural
    <3> QED BY <3>2
  <2> QED BY <2>3, <2>4, <2>5, <1>1
<1> QED BY <1>3, <1>4, <1>5, <1>6, <1>7

\* What the requests are, and what an edit makes of the fields of an item.
LEMMA EditedTypes ==
  ASSUME NEW s \in Schedules, NEW r \in Requests
  PROVE  Merged(s, r) \in Schedules /\ Edited(s, Merged(s, r)) \in Schedules
<1>1. r \in Schedules
  BY RequestsAssumption
<1>2. Merged(s, r) \in Schedules
  BY <1>1 DEF Merged, Schedules
<1>3. \A m \in Schedules : Edited(s, m) \in Schedules
  BY DEF Edited, Schedules, Once, Interval, Daily, Weekly, Repeats
<1> QED BY <1>2, <1>3
-----------------------------------------------------------------------------
(* The user's clock *)

\* What is left of a number that is written with a divisor.
LEMMA DivisionOf ==
  ASSUME NEW d \in Nat \ {0}, NEW q \in Int, NEW r \in 0 .. d - 1
  PROVE  (d * q + r) % d = r /\ (d * q + r) \div d = q
OBVIOUS

\* A wall time is some whole days and a time of day.
LEMMA DayAndTime ==
  ASSUME NEW w \in Int
  PROVE  /\ w \div TicksPerDay \in Int /\ w % TicksPerDay \in 0 .. TicksPerDay - 1
         /\ Midnight(w) = TicksPerDay * (w \div TicksPerDay)
         /\ Midnight(w) \in Int /\ Midnight(w) <= w /\ w < Midnight(w) + TicksPerDay
<1> DEFINE q == w \div TicksPerDay
           r == w % TicksPerDay
<1>1. q \in Int /\ r \in 0 .. TicksPerDay - 1 /\ w = TicksPerDay * q + r
  BY ScheduleAssumption
<1>2. TicksPerDay * q \in Int
  BY <1>1, ScheduleAssumption
<1> HIDE DEF q, r
<1>3. w - r = TicksPerDay * q /\ TicksPerDay * q <= w /\ w < TicksPerDay * q + TicksPerDay
  BY <1>1, <1>2, ScheduleAssumption
<1> QED BY <1>1, <1>2, <1>3 DEF Midnight, q, r

\* What is past a midnight is past the midnights before.
LEMMA MidnightAfter ==
  ASSUME NEW v \in Int, NEW w \in Int, Midnight(w) + TicksPerDay <= v
  PROVE  Midnight(w) + TicksPerDay <= Midnight(v)
<1> DEFINE p == v \div TicksPerDay
           q == w \div TicksPerDay
<1>1. /\ p \in Int /\ Midnight(v) = TicksPerDay * p /\ v < Midnight(v) + TicksPerDay
      /\ q \in Int /\ Midnight(w) = TicksPerDay * q /\ Midnight(v) \in Int /\ Midnight(w) \in Int
  BY DayAndTime
<1> HIDE DEF p, q
<1>2. TicksPerDay * q < TicksPerDay * p
  BY <1>1, ScheduleAssumption
<1>3. q < p
  BY <1>1, <1>2, ScheduleAssumption
<1>4. TicksPerDay * q + TicksPerDay <= TicksPerDay * p
  BY <1>1, <1>3, ScheduleAssumption
<1> QED BY <1>1, <1>4

\* The wall time at a time of day, some days on.
Candidate(wall, n, time) == Midnight(wall) + n * TicksPerDay + time

LEMMA CandidateReads ==
  ASSUME NEW wall \in Int, NEW n \in Int, NEW time \in Times
  PROVE  /\ Candidate(wall, n, time) \in Int
         /\ Candidate(wall, n, time) % TicksPerDay = time
         /\ Candidate(wall, n, time) \div TicksPerDay = wall \div TicksPerDay + n
<1> DEFINE q == wall \div TicksPerDay
<1>1. q \in Int /\ Midnight(wall) = TicksPerDay * q
  BY DayAndTime
<1> HIDE DEF q
<1>2. q + n \in Int /\ TicksPerDay * (q + n) = TicksPerDay * q + n * TicksPerDay
  BY <1>1, ScheduleAssumption
<1>3. time \in 0 .. TicksPerDay - 1 /\ time \in Int
  BY ScheduleAssumption DEF Times
<1>4. Candidate(wall, n, time) = TicksPerDay * (q + n) + time
  BY <1>1, <1>2, <1>3 DEF Candidate
<1>5. TicksPerDay * (q + n) \in Int
  BY <1>2, ScheduleAssumption
<1>6. /\ (TicksPerDay * (q + n) + time) % TicksPerDay = time
      /\ (TicksPerDay * (q + n) + time) \div TicksPerDay = q + n
  BY <1>2, <1>3, DivisionOf, ScheduleAssumption
<1> QED BY <1>3, <1>4, <1>5, <1>6 DEF q

\* Two wall times of the same time of day are whole days apart.
LEMMA SameTime ==
  ASSUME NEW v \in Int, NEW w \in Int, v % TicksPerDay = w % TicksPerDay, w < v
  PROVE  /\ v \div TicksPerDay > w \div TicksPerDay
         /\ v = Candidate(w, (v \div TicksPerDay) - (w \div TicksPerDay), w % TicksPerDay)
         /\ v >= w + TicksPerDay
<1> DEFINE p == v \div TicksPerDay
           q == w \div TicksPerDay
           r == w % TicksPerDay
<1>0. /\ p \in Int /\ v - r = TicksPerDay * p
      /\ q \in Int /\ w - r = TicksPerDay * q /\ r \in 0 .. TicksPerDay - 1
  BY DayAndTime DEF Midnight
<1> HIDE DEF p, q, r
<1>1. /\ p \in Int /\ q \in Int /\ r \in 0 .. TicksPerDay - 1
      /\ v = TicksPerDay * p + r /\ w = TicksPerDay * q + r
  BY <1>0, ScheduleAssumption
<1>2. TicksPerDay * q < TicksPerDay * p
  BY <1>1, ScheduleAssumption
<1>3. q < p
  BY <1>1, <1>2, ScheduleAssumption
<1>4. TicksPerDay * p = TicksPerDay * q + (p - q) * TicksPerDay
  BY <1>1, ScheduleAssumption
<1>5. TicksPerDay * q + TicksPerDay <= TicksPerDay * p
  BY <1>1, <1>3, ScheduleAssumption
<1>6. v = Midnight(w) + (p - q) * TicksPerDay + r
  BY <1>1, <1>4, DayAndTime DEF q
<1>7. v >= w + TicksPerDay
  BY <1>1, <1>5, ScheduleAssumption
<1> QED BY <1>3, <1>6, <1>7 DEF p, q, r, Candidate

\* A weekday asked for is at most a week away.
LEMMA WeekdayAhead ==
  ASSUME NEW q \in Int, NEW day \in Weekdays
  PROVE  \E n \in 1 .. DaysPerWeek : (q + n) % DaysPerWeek = day
<1> DEFINE a == q \div DaysPerWeek
           b == q % DaysPerWeek
<1>1. /\ a \in Int /\ b \in 0 .. DaysPerWeek - 1 /\ q = DaysPerWeek * a + b
      /\ day \in 0 .. DaysPerWeek - 1
  BY ScheduleAssumption DEF Weekdays
<1> HIDE DEF a, b
<1>2. CASE b < day
  <2>1. day - b \in 1 .. DaysPerWeek /\ q + (day - b) = DaysPerWeek * a + day
    BY <1>1, <1>2, ScheduleAssumption
  <2> QED BY <1>1, <2>1, DivisionOf, ScheduleAssumption
<1>3. CASE day <= b
  <2>1. /\ DaysPerWeek + day - b \in 1 .. DaysPerWeek /\ a + 1 \in Int
        /\ DaysPerWeek * (a + 1) = DaysPerWeek * a + DaysPerWeek
    BY <1>1, <1>3, ScheduleAssumption
  <2>2. q + (DaysPerWeek + day - b) = DaysPerWeek * (a + 1) + day
    BY <1>1, <2>1, ScheduleAssumption
  <2>3. (DaysPerWeek * (a + 1) + day) % DaysPerWeek = day
    BY <1>1, <2>1, DivisionOf, ScheduleAssumption
  <2> QED BY <2>1, <2>2, <2>3
<1> QED BY <1>1, <1>2, <1>3, ScheduleAssumption

\* What next_due looks for on the user's clock: the first wall time after `wall` that
\* the schedule asks for.
FirstWanted(wall, w) ==
  /\ w \in Int /\ wall < w /\ Wanted(w)
  /\ \A v \in Int : wall < v /\ Wanted(v) => w <= v

LEMMA WantedApart ==
  ASSUME NEW v \in Int, NEW w \in Int, Wanted(v), Wanted(w), w < v
  PROVE  w + TicksPerDay <= v
BY SameTime DEF Wanted

\* A daily item: today if the time is still to come, else tomorrow.
LEMMA DailyWanted ==
  ASSUME NEW t \in Times, schedule = Daily(t), NEW wall \in Int
  PROVE  LET c == Midnight(wall) + t
         IN  FirstWanted(wall, IF c <= wall THEN c + TicksPerDay ELSE c)
<1> DEFINE c == Midnight(wall) + t
           w == IF c <= wall THEN c + TicksPerDay ELSE c
<1>1. t \in 0 .. TicksPerDay - 1 /\ t \in Int
  BY ScheduleAssumption DEF Times
<1>2. Midnight(wall) \in Int /\ Midnight(wall) <= wall /\ wall < Midnight(wall) + TicksPerDay
  BY DayAndTime
<1>3. c = Candidate(wall, 0, t) /\ c + TicksPerDay = Candidate(wall, 1, t)
  BY <1>1, <1>2, ScheduleAssumption DEF Candidate
<1>4. c \in Int /\ c % TicksPerDay = t /\ (c + TicksPerDay) % TicksPerDay = t
  BY <1>3, CandidateReads
<1>5. w \in Int /\ wall < w /\ w % TicksPerDay = t /\ w <= wall + TicksPerDay
  BY <1>1, <1>2, <1>4, ScheduleAssumption
<1> HIDE DEF w, c
<1>6. \A v \in Int : Wanted(v) <=> v % TicksPerDay = t
  BY DEF Wanted, Daily
<1>7. ASSUME NEW v \in Int, wall < v, Wanted(v), v < w PROVE FALSE
  <2>1. v + TicksPerDay <= w
    BY <1>5, <1>6, <1>7, WantedApart
  <2> QED BY <1>5, <1>7, <2>1, ScheduleAssumption
<1>8. FirstWanted(wall, w)
  BY <1>5, <1>6, <1>7 DEF FirstWanted
<1> QED BY <1>8 DEF w, c

\* A weekly item: the first of the coming week's wall times on one of its days.
LEMMA WeeklyWanted ==
  ASSUME NEW t \in Times, NEW ds \in (SUBSET Weekdays) \ {{}}, schedule = Weekly(t, ds),
         NEW wall \in Int
  PROVE  LET open == {n \in Offsets : /\ Weekday(Candidate(wall, n, t)) \in ds
                                      /\ Candidate(wall, n, t) > wall}
         IN  /\ open # {}
             /\ FirstWanted(wall,
                  Candidate(wall, CHOOSE n \in open : \A m \in open : n <= m, t))
<1> DEFINE At(n) == Candidate(wall, n, t)
           open == {n \in Offsets : Weekday(At(n)) \in ds /\ At(n) > wall}
           first == CHOOSE n \in open : \A m \in open : n <= m
           q == wall \div TicksPerDay
<1>1. q \in Int /\ t \in 0 .. TicksPerDay - 1 /\ t \in Int
  BY DayAndTime, ScheduleAssumption DEF Times
<1>2. \A n \in Int : /\ At(n) \in Int /\ At(n) % TicksPerDay = t
                     /\ At(n) \div TicksPerDay = q + n
  BY CandidateReads
<1>3. \A n \in Nat \ {0} : At(n) > wall
  <2> SUFFICES ASSUME NEW n \in Nat \ {0} PROVE At(n) > wall
    OBVIOUS
  <2>1. n * TicksPerDay >= TicksPerDay
    BY ScheduleAssumption
  <2>2. Midnight(wall) \in Int /\ wall < Midnight(wall) + TicksPerDay
    BY DayAndTime
  <2>3. n * TicksPerDay \in Int
    BY ScheduleAssumption
  <2> QED BY <1>1, <2>1, <2>2, <2>3, ScheduleAssumption DEF Candidate
<1>4. \A v \in Int : Wanted(v) <=> v % TicksPerDay = t /\ Weekday(v) \in ds
  BY DEF Wanted, Weekly
<1> HIDE DEF At, q
<1>5. open # {}
  <2>1. PICK day \in ds : day \in Weekdays
    OBVIOUS
  <2>2. PICK n \in 1 .. DaysPerWeek : (q + n) % DaysPerWeek = day
    BY <1>1, <2>1, WeekdayAhead
  <2>3. n \in Nat \ {0} /\ n \in Offsets /\ n \in Int
    BY ScheduleAssumption DEF Offsets
  <2>4. Weekday(At(n)) = day /\ At(n) > wall
    BY <1>2, <1>3, <2>2, <2>3 DEF Weekday
  <2> QED BY <2>1, <2>3, <2>4
<1>6. open \in SUBSET Nat
  BY ScheduleAssumption DEF Offsets
<1>7. first \in open /\ \A m \in open : first <= m
  BY <1>5, <1>6, LeastNatural, Zenon
<1> HIDE DEF first
<1>8. first \in Nat /\ first \in Offsets /\ At(first) > wall /\ Weekday(At(first)) \in ds
  BY <1>6, <1>7
<1>9. At(first) \in Int /\ Wanted(At(first))
  BY <1>2, <1>4, <1>8
<1>10. ASSUME NEW v \in Int, wall < v, Wanted(v), v < At(first) PROVE FALSE
  <2> DEFINE k == (v \div TicksPerDay) - q
  <2>1. v % TicksPerDay = t /\ Weekday(v) \in ds /\ v \div TicksPerDay \in Int
    BY <1>4, <1>10, DayAndTime
  <2>2. k \in Int /\ v \div TicksPerDay = q + k
    BY <1>1, <2>1
  <2>3. v = At(k)
    <3>1. v = Midnight(v) + t /\ Midnight(v) = TicksPerDay * (v \div TicksPerDay)
      BY <2>1, <1>1, DayAndTime DEF Midnight
    <3>2. Midnight(wall) = TicksPerDay * q
      BY DayAndTime DEF q
    <3>3. TicksPerDay * (q + k) = TicksPerDay * q + k * TicksPerDay
      BY <1>1, <2>2, ScheduleAssumption
    <3> QED BY <2>2, <3>1, <3>2, <3>3 DEF At, Candidate
  <2>4. k >= 0
    <3>1. SUFFICES ASSUME k < 0 PROVE FALSE
      BY <2>2
    <3>2. TicksPerDay * (v \div TicksPerDay) + TicksPerDay <= TicksPerDay * q
      BY <1>1, <2>1, <2>2, <3>1, ScheduleAssumption
    <3>3. /\ v < Midnight(v) + TicksPerDay /\ Midnight(wall) <= wall
          /\ Midnight(v) = TicksPerDay * (v \div TicksPerDay)
          /\ Midnight(wall) = TicksPerDay * q /\ Midnight(v) \in Int /\ Midnight(wall) \in Int
      BY DayAndTime DEF q
    <3> QED BY <1>10, <3>2, <3>3, ScheduleAssumption
  <2>5. k < first
    <3>1. SUFFICES ASSUME first <= k PROVE FALSE
      BY <1>8, <2>2
    <3>2. first * TicksPerDay <= k * TicksPerDay
      BY <1>8, <2>2, <3>1, ScheduleAssumption
    <3>3. /\ first * TicksPerDay \in Int /\ k * TicksPerDay \in Int
          /\ Midnight(wall) \in Int
      BY <1>8, <2>2, DayAndTime, ScheduleAssumption
    <3>4. At(first) <= At(k)
      BY <1>1, <3>2, <3>3 DEF At, Candidate
    <3> QED BY <1>9, <1>10, <2>3, <3>4
  <2>6. k \in Offsets /\ k \in open
    BY <1>8, <1>10, <2>1, <2>2, <2>3, <2>4, <2>5, ScheduleAssumption DEF Offsets
  <2> QED BY <1>7, <1>8, <2>2, <2>5, <2>6
<1>11. FirstWanted(wall, At(first))
  BY <1>8, <1>9, <1>10 DEF FirstWanted
<1> QED BY <1>5, <1>11 DEF first, At

ClockTypes == /\ zone \in -Jump .. Jump /\ schedule \in Repeating /\ instant \in Nat

\* Where the first wall time asked for is read with either fold, the due time is its
\* instant: later than now but for the second pass, on the user's clock, and nothing
\* that was asked for comes before.
LEMMA DueOfWanted ==
  ASSUME ClockTypes, NEW w \in Int, FirstWanted(Wall(zone, instant), w), NEW fold \in {0, 1},
         fold = 1 => fold = Fold(zone, instant), Due = Instant(zone, w, fold)
  PROVE  /\ Due \in Int
         /\ (fold = Fold(zone, instant) \/ Change <= w) => Due > instant
         /\ NoneSkipped /\ AtWallClock
<1>1. /\ zone \in Int /\ zone <= TicksPerDay /\ -zone <= TicksPerDay
      /\ instant \in Int /\ Change \in Int /\ TicksPerDay \in Int
  BY JumpAssumption, ScheduleAssumption DEF ClockTypes
<1> DEFINE wall == Wall(zone, instant)
<1>2. wall \in Int /\ wall < w /\ Wanted(w) /\ \A v \in Int : wall < v /\ Wanted(v) => w <= v
  BY <1>1 DEF FirstWanted, Wall
<1>3. Due \in Int /\ ((fold = Fold(zone, instant) \/ Change <= w) => Due > instant)
  BY <1>1, <1>2 DEF Wall, Fold, Instant
<1>4. NoneSkipped
  <2> SUFFICES ASSUME NEW u \in instant + 1 .. Due - 1, Fold(zone, u) = 0,
                      Wanted(Wall(zone, u))
               PROVE  FALSE
    BY DEF NoneSkipped, Matches
  <2>1. u \in Int /\ instant < u /\ u < Due
    BY <1>1, <1>3
  <2>2. Wall(zone, u) \in Int /\ wall < Wall(zone, u)
    BY <1>1, <2>1 DEF Wall, Fold
  <2>3. w <= Wall(zone, u)
    BY <1>2, <2>2
  <2>4. w # Wall(zone, u)
    BY <1>1, <1>2, <2>1 DEF Wall, Fold, Instant
  <2>5. w + TicksPerDay <= Wall(zone, u)
    BY <1>2, <2>2, <2>3, <2>4, WantedApart
  <2> QED BY <1>1, <1>2, <2>1, <2>5 DEF Wall, Fold, Instant
<1>5. AtWallClock
  <2>1. Wall(zone, Due) = w \/ (Change <= Due /\ Due < Change + zone)
    BY <1>1, <1>2, <1>3 DEF Wall, Fold, Instant
  <2> QED BY <1>2, <2>1 DEF AtWallClock, Matches
<1> QED BY <1>3, <1>4, <1>5

LEMMA DueIsRight ==
  ASSUME ClockTypes
  PROVE  DueInFuture /\ NoneSkipped /\ AtWallClock
<1> DEFINE wall == Wall(zone, instant)
           f == Fold(zone, instant)
<1>1. /\ zone \in Int /\ instant \in Int /\ Change \in Int /\ wall \in Int /\ f \in {0, 1}
      /\ TicksPerDay \in Nat \ {0}
  BY JumpAssumption, ScheduleAssumption DEF ClockTypes, Wall, Fold
<1>2. ASSUME NEW t \in Times, schedule = Daily(t)
      PROVE  DueInFuture /\ NoneSkipped /\ AtWallClock
  <2> DEFINE c == Midnight(wall) + t
             w == IF c <= wall THEN c + TicksPerDay ELSE c
  <2>1. FirstWanted(wall, w)
    BY <1>1, <1>2, DailyWanted
  <2>2. /\ w \in Int /\ wall < w
        /\ t \in Nat /\ Midnight(wall) \in Int /\ wall < Midnight(wall) + TicksPerDay
    <3>1. w \in Int /\ wall < w
      BY <2>1, Zenon DEF FirstWanted
    <3>2. t \in 0 .. TicksPerDay - 1 /\ t \in Nat
      BY ScheduleAssumption DEF Times
    <3>3. Midnight(wall) \in Int /\ wall < Midnight(wall) + TicksPerDay
      BY <1>1, DayAndTime
    <3> QED BY <3>1, <3>2, <3>3
  <2>3. Due = Instant(zone, w, IF c <= wall THEN 0 ELSE f)
    <3>1. t # None /\ schedule.repeat = "daily" /\ schedule.time = t
      BY <1>2, <2>2, ScheduleAssumption DEF Daily
    <3> QED BY <3>1 DEF Due, NextDue, NextDaily, Passed, Tomorrow
  <2>4. CASE c <= wall
    <3>1. /\ Due \in Int /\ (0 = f \/ Change <= w => Due > instant)
          /\ NoneSkipped /\ AtWallClock
      BY <2>1, <2>2, <2>3, <2>4, DueOfWanted
    <3>2. f = 1 /\ RepeatsWithinDay => Change <= w
      <4> SUFFICES ASSUME f = 1, RepeatsWithinDay, w < Change PROVE FALSE
        BY <1>1, <2>2
      <4>1. Midnight(Change - 1) \in Int /\ Midnight(Change - 1) <= wall
        BY <1>1, DayAndTime DEF RepeatsWithinDay, Fold, Wall
      <4>2. Midnight(wall) + TicksPerDay <= Change - 1
        BY <1>1, <2>2, <2>4
      <4>3. Midnight(wall) + TicksPerDay <= Midnight(Change - 1)
        BY <1>1, <4>2, MidnightAfter
      <4> QED BY <1>1, <2>2, <4>1, <4>3
    <3> QED BY <1>1, <3>1, <3>2, ScheduleAssumption DEF DueInFuture
  <2>5. CASE ~(c <= wall)
    BY <1>1, <2>1, <2>2, <2>3, <2>5, DueOfWanted, ScheduleAssumption DEF DueInFuture
  <2> QED BY <2>4, <2>5
<1>3. ASSUME NEW t \in Times, NEW ds \in (SUBSET Weekdays) \ {{}}, schedule = Weekly(t, ds)
      PROVE  DueInFuture /\ NoneSkipped /\ AtWallClock
  <2> DEFINE open == {n \in Offsets : /\ Weekday(Candidate(wall, n, t)) \in ds
                                      /\ Candidate(wall, n, t) > wall}
             w == Candidate(wall, CHOOSE n \in open : \A m \in open : n <= m, t)
  <2>1. open # {} /\ FirstWanted(wall, w)
    BY <1>1, <1>3, WeeklyWanted
  <2>2. t # None /\ schedule.repeat = "weekly" /\ schedule.time = t /\ schedule.days = ds
    BY <1>3, ScheduleAssumption DEF Weekly, Times
  <2>3. Due = Instant(zone, w, 0)
    <3>1. Due = NextWeekly(zone, t, ds, instant)
      BY <1>3, <2>2 DEF Due, NextDue
    <3> QED BY <2>1, <3>1 DEF NextWeekly, Candidate
  <2> HIDE DEF w, open
  <2>4. /\ Due \in Int /\ (0 = f \/ Change <= w => Due > instant)
        /\ NoneSkipped /\ AtWallClock
    <3>1. w \in Int
      BY <2>1 DEF FirstWanted
    <3> QED BY <2>1, <2>3, <3>1, DueOfWanted
  <2> QED BY <2>2, <2>4, ScheduleAssumption DEF DueInFuture
<1> QED BY <1>2, <1>3 DEF ClockTypes, Repeating

LEMMA ClockTyped == ClockSpec => []ClockTypes
<1>1. ClockInit => ClockTypes
  BY DEF ClockInit, ClockTypes
<1>2. ClockTypes /\ [Passes]_clockVars => ClockTypes'
  BY DEF ClockTypes, Passes, clockVars
<1> QED BY <1>1, <1>2, PTL DEF ClockSpec

\* Whatever the length of days and weeks, and however the clock changes: next_due
\* gives a time that is still to come (with the exception DueInFuture names),
THEOREM DueIsLater == ClockSpec => []DueInFuture
BY ClockTyped, DueIsRight, PTL

\* skips nothing the user asked for,
THEOREM NothingSkipped == ClockSpec => []NoneSkipped
BY ClockTyped, DueIsRight, PTL

\* and is on the user's wall clock.
THEOREM OnWallClock == ClockSpec => []AtWallClock
BY ClockTyped, DueIsRight, PTL
-----------------------------------------------------------------------------
(* Types *)

LEMMA InitTypes == Init => TypeOK
<1> SUFFICES ASSUME Init PROVE TypeOK
  OBVIOUS
<1> QED BY RequestsAssumption DEF Init, TypeOK, NoItems

LEMMA NextTypes == TypeOK /\ [Next]_vars => TypeOK'
<1> SUFFICES ASSUME TypeOK, [Next]_vars PROVE TypeOK'
  OBVIOUS
<1> USE RequestsAssumption, NoneAssumption DEF TypeOK
<1>1. ASSUME NEW i \in Ids, NEW r \in Requests, Create(i, r) PROVE TypeOK'
  <2>1. [sched |-> r, due |-> Following(r), status |-> "pending"] \in Items
    BY <1>1, NextDueLater DEF Create, Following, Items
  <2> QED BY <1>1, <2>1 DEF Create, Save, thread, history
<1>2. ASSUME NEW i \in Ids, NEW r \in Requests, Update(i, r) PROVE TypeOK'
  <2> DEFINE m == Merged(items[i].sched, r)
  <2>1. items[i] \in Items /\ Following(m) # None
    BY <1>2 DEF Update, Edit
  <2>2. m \in Schedules /\ Edited(items[i].sched, m) \in Schedules
    BY <2>1, EditedTypes DEF Items
  <2>3. [sched |-> Edited(items[i].sched, m), due |-> Following(m), status |-> "pending"] \in Items
    BY <2>1, <2>2, NextDueLater DEF Following, Items
  <2> HIDE DEF m
  <2> QED BY <1>2, <2>3 DEF Update, Edit, Save, thread, history, m
<1>3. ASSUME NEW i \in Ids, NEW r \in Requests, UpdateRefused(i, r) PROVE TypeOK'
  <2>1. items[i] \in Items
    BY <1>3 DEF UpdateRefused, Edit
  <2>2. [items[i] EXCEPT !.sched = Edited(@, Merged(@, r))] \in Items
    BY <2>1, EditedTypes DEF Items
  <2> QED BY <1>3, <2>1, <2>2 DEF UpdateRefused, Edit, thread, history
<1>4. ASSUME NEW i \in Ids, Delete(i) PROVE TypeOK'
  BY <1>4 DEF Delete, Save, thread, history
<1>5. CASE FinishSave
  BY <1>5 DEF FinishSave, thread
<1>6. CASE Poll
  <2>1. \A i \in Ids : Pending(items, i) => items[i].due \in Nat
    BY DEF Pending, Items
  <2> QED BY <1>6, <2>1 DEF Poll, Occurrences, store, history
<1>7. ASSUME NEW o \in batch, Fire(o) PROVE TypeOK'
  BY <1>7 DEF Fire, store
<1>8. CASE TaskAnswers
  BY <1>8 DEF TaskAnswers, Save, store, history
<1>9. CASE TaskFails
  BY <1>9 DEF TaskFails, store, history
<1>10. CASE Advance
  <2>1. CASE items[firing[1]] = None
    BY <1>10, <2>1 DEF Advance, store, history
  <2>2. CASE items[firing[1]] # None
    <3> DEFINE i == firing[1]
    <3>1. /\ ~Unplaceable(i) /\ items' = [items EXCEPT ![i] = Rolled(@)]
          /\ lock' = "scheduler" /\ file' = file
      BY <1>10, <2>2 DEF Advance, Save
    <3>2. ASSUME i \in Ids PROVE Rolled(items[i]) \in Items
      <4>1. items[i] \in Items
        BY <2>2, <3>2
      <4>2. items[i].sched.repeat # "once" => Following(items[i].sched) \in Nat
        BY <4>1, <3>1, NextDueLater DEF Unplaceable, Following, Items
      <4> QED BY <4>1, <4>2 DEF Rolled, Items
    <3> HIDE DEF i
    <3>3. items' \in [Ids -> Items \cup {None}]
      BY <3>1, <3>2
    <3> QED BY <1>10, <3>1, <3>3 DEF Advance, history
  <2> QED BY <2>1, <2>2
<1>11. CASE AdvanceRaises
  BY <1>11 DEF AdvanceRaises, store, history
<1>12. CASE EndRound
  BY <1>12 DEF EndRound, store, history
<1>13. CASE Tick
  BY <1>13 DEF Tick, store, thread, history
<1>14. CASE Crash
  <2>1. Loaded \in [Ids -> Items \cup {None}]
    BY DEF Loaded, NoItems
  <2> QED BY <1>14, <2>1 DEF Crash
<1>15. CASE UNCHANGED vars
  BY <1>15 DEF vars
<1> QED
  BY <1>1, <1>2, <1>3, <1>4, <1>5, <1>6, <1>7, <1>8, <1>9, <1>10, <1>11, <1>12, <1>13, <1>14, <1>15
  DEF Next, Scheduler

\* The variables of every state have their types.
THEOREM ReminderTypes == Spec => []TypeOK
<1> QED BY InitTypes, NextTypes, PTL DEF Spec
-----------------------------------------------------------------------------
(* Deletion *)

\* What makes it inductive: the file does not hold a deleted item either, unless
\* its save is under way, and then a restart finds nothing at all.
DeletedInv ==
  \A i \in Ids : life[i] = "deleted" => items[i] = None /\ (lock = None => file[i] = None)

LEMMA NextDeleted == TypeOK /\ DeletedInv /\ [Next]_vars => DeletedInv'
<1> SUFFICES ASSUME TypeOK, DeletedInv, [Next]_vars PROVE DeletedInv'
  OBVIOUS
<1> USE RequestsAssumption, NoneAssumption DEF DeletedInv, TypeOK
<1>1. ASSUME NEW i \in Ids, NEW r \in Requests, Create(i, r) PROVE DeletedInv'
  BY <1>1 DEF Create, Save
<1>2. ASSUME NEW i \in Ids, NEW r \in Requests, Update(i, r) PROVE DeletedInv'
  BY <1>2 DEF Update, Edit, Save
<1>3. ASSUME NEW i \in Ids, NEW r \in Requests, UpdateRefused(i, r) PROVE DeletedInv'
  BY <1>3 DEF UpdateRefused, Edit
<1>4. ASSUME NEW i \in Ids, Delete(i) PROVE DeletedInv'
  BY <1>4 DEF Delete, Save
<1>5. CASE FinishSave
  BY <1>5 DEF FinishSave
<1>6. CASE TaskAnswers
  BY <1>6 DEF TaskAnswers, Save, store
<1>7. CASE Advance
  BY <1>7 DEF Advance, Save, store
<1>8. CASE Crash
  BY <1>8 DEF Crash, Loaded, NoItems
<1>9. CASE Poll \/ TaskFails \/ AdvanceRaises \/ EndRound \/ Tick \/ (\E o \in batch : Fire(o))
  BY <1>9 DEF Poll, TaskFails, AdvanceRaises, EndRound, Tick, Fire, store
<1>10. CASE UNCHANGED vars
  BY <1>10 DEF vars
<1> QED
  BY <1>1, <1>2, <1>3, <1>4, <1>5, <1>6, <1>7, <1>8, <1>9, <1>10 DEF Next, Scheduler

\* An item the user deleted does not come back.
THEOREM DeletionIsFinal == Spec => []DeletedStaysDeleted
<1>1. Init => DeletedInv
  BY DEF Init, DeletedInv, NoItems
<1>2. DeletedInv => DeletedStaysDeleted
  BY DEF DeletedInv, DeletedStaysDeleted
<1> QED BY <1>1, <1>2, NextDeleted, ReminderTypes, PTL DEF Spec
-----------------------------------------------------------------------------
(* Memory and file *)

\* An item's due time and status, as memory or the file holds them.
Armed(held, i) == IF held[i] = None THEN None ELSE <<held[i].due, held[i].status>>

PersistedInv == lock = None => \A i \in Ids : Armed(items, i) = Armed(file, i)

LEMMA NextPersisted == TypeOK /\ PersistedInv /\ [Next]_vars => PersistedInv'
<1> SUFFICES ASSUME TypeOK, PersistedInv, [Next]_vars PROVE PersistedInv'
  OBVIOUS
<1> USE RequestsAssumption, NoneAssumption DEF PersistedInv, TypeOK
<1>1. ASSUME NEW i \in Ids, NEW r \in Requests, Create(i, r) \/ Update(i, r) PROVE PersistedInv'
  BY <1>1 DEF Create, Update, Save
<1>2. ASSUME NEW i \in Ids, NEW r \in Requests, UpdateRefused(i, r) PROVE PersistedInv'
  <2>1. items[i] \in Items /\ lock = None
    BY <1>2 DEF UpdateRefused, Edit
  <2>2. /\ file' = file /\ lock' = lock
        /\ items' = [items EXCEPT ![i] = [items[i] EXCEPT !.sched = Edited(@, Merged(@, r))]]
    BY <1>2 DEF UpdateRefused
  <2> DEFINE new == [items[i] EXCEPT !.sched = Edited(@, Merged(@, r))]
  <2>3. new.due = items[i].due /\ new.status = items[i].status /\ new \in Items
    BY <2>1, EditedTypes DEF Items
  <2>4. new # None
    BY <2>3, NoneAssumption
  <2> HIDE DEF new
  <2>5. \A j \in Ids : Armed(items', j) = Armed(items, j)
    BY <2>1, <2>2, <2>3, <2>4 DEF Armed, new
  <2> QED BY <2>1, <2>2, <2>5 DEF Armed
<1>3. ASSUME NEW i \in Ids, Delete(i) PROVE PersistedInv'
  BY <1>3 DEF Delete, Save
<1>4. CASE FinishSave
  BY <1>4 DEF FinishSave, Armed
<1>5. CASE TaskAnswers
  BY <1>5 DEF TaskAnswers, Save, store, Armed
<1>6. CASE Advance
  BY <1>6 DEF Advance, Save, store, Armed
<1>7. CASE Crash
  BY <1>7 DEF Crash, Armed
<1>8. CASE Poll \/ TaskFails \/ AdvanceRaises \/ EndRound \/ Tick \/ (\E o \in batch : Fire(o))
  BY <1>8 DEF Poll, TaskFails, AdvanceRaises, EndRound, Tick, Fire, store, Armed
<1>9. CASE UNCHANGED vars
  BY <1>9 DEF vars, Armed
<1> QED
  BY <1>1, <1>2, <1>3, <1>4, <1>5, <1>6, <1>7, <1>8, <1>9 DEF Next, Scheduler

\* Between saves the file holds what memory holds armed.
THEOREM FileFollows == Spec => []Persisted
<1>1. Init => PersistedInv
  BY DEF Init, PersistedInv, Armed
<1>2. PersistedInv => Persisted
  BY DEF PersistedInv, Persisted, Armed
<1> QED BY <1>1, <1>2, NextPersisted, ReminderTypes, PTL DEF Spec
-----------------------------------------------------------------------------
(* Deliveries *)

Occurrence(held, i) == <<i, held[i].due>>
InCallback == pc \in {"task", "advance", "dead"}

\* Deliveries are of the past.
FiredPast == \A o \in fired \cup batch : o[2] <= now

\* What is armed for a time that was delivered is in the callback's hands.
ArmedFired ==
  \A i \in Ids : Pending(items, i) /\ Occurrence(items, i) \in fired
                  => InCallback /\ firing = Occurrence(items, i)

\* The file arms nothing that a finished save recorded as delivered.
FileFresh ==
  lock = None => \A i \in Ids : Pending(file, i) => Occurrence(file, i) \notin settled

\* DeliveredOnce is not inductive: that due() returns nothing that was delivered
\* takes that advance() moved it, and that a restart finds it moved.
DeliveryInv == FiredPast /\ ArmedFired /\ FileFresh /\ DeliveredOnce
               /\ (InCallback => firing \in Occurrences)

\* A save is under way, and what is armed now is item i, for a time nothing was
\* delivered at, or was armed as it is before.
Rearmed(i) ==
  /\ lock' # None
  /\ \A j \in Ids : Pending(items', j) =>
       \/ j = i /\ Occurrence(items', j) \notin fired
       \/ j # i /\ Pending(items, j) /\ items'[j] = items[j]

\* An item armed by a request, after the present, is none of those delivered.
LEMMA ArmedLater ==
  ASSUME TypeOK, DeliveryInv, NEW i \in Ids, NEW t \in Nat, t > now
  PROVE  <<i, t>> \notin fired
<1>1. \A o \in fired : o[2] <= now
  BY DEF DeliveryInv, FiredPast
<1>2. now \in Nat
  BY RequestsAssumption DEF TypeOK
<1>3. <<i, t>>[2] = t /\ ~(t <= now)
  BY <1>2
<1> QED BY <1>1, <1>3, Zenon

LEMMA NextDelivered == TypeOK /\ DeliveryInv /\ [Next]_vars => DeliveryInv'
<1> SUFFICES ASSUME TypeOK, DeliveryInv, [Next]_vars PROVE DeliveryInv'
  OBVIOUS
<1> USE RequestsAssumption, NoneAssumption
<1>t. /\ items \in [Ids -> Items \cup {None}] /\ now \in Nat /\ settled \subseteq fired
      /\ fired \subseteq Occurrences /\ batch \subseteq Occurrences
  BY DEF TypeOK
\* A request that arms item i for a later time.
<1>a. ASSUME NEW i \in Ids, NEW item, NEW who \in {"request", "scheduler"},
             item.status = "pending" => item.due \in Nat /\ item.due > now,
             Save(who, [items EXCEPT ![i] = item])
      PROVE  Rearmed(i)
  <2>1. items' = [items EXCEPT ![i] = item] /\ lock' = who
    BY <1>a DEF Save
  <2>2. item.status = "pending" => <<i, item.due>> \notin fired
    BY <1>a, ArmedLater
  <2>3. lock' # None
    BY <1>a, <2>1
  <2>4. ASSUME NEW j \in Ids, Pending(items', j)
        PROVE  (j = i /\ Occurrence(items', j) \notin fired) \/ (j # i /\ Pending(items, j) /\ items'[j] = items[j])
    <3>1. CASE j = i
      <4>1. items'[j] = item /\ item.status = "pending"
        BY <1>t, <2>1, <2>4, <3>1 DEF Pending
      <4> QED BY <2>2, <3>1, <4>1 DEF Occurrence
    <3>2. CASE j # i
      <4>1. items'[j] = items[j]
        BY <1>t, <2>1, <3>2
      <4> QED BY <2>4, <3>2, <4>1 DEF Pending
    <3> QED BY <3>1, <3>2
  <2> QED BY <2>3, <2>4 DEF Rearmed
<1>1. ASSUME NEW i \in Ids, NEW r \in Requests, Create(i, r) PROVE DeliveryInv'
  <2> DEFINE item == [sched |-> r, due |-> Following(r), status |-> "pending"]
  <2>1. Save("request", [items EXCEPT ![i] = item]) /\ UNCHANGED <<now, thread, history>>
    BY <1>1 DEF Create
  <2>2. item.due \in Nat /\ item.due > now
    BY <1>1, <1>t, NextDueLater DEF Create, Following
  <2> HIDE DEF item
  <2>3. Rearmed(i)
    BY <2>1, <2>2, <1>a
  <2> QED BY <2>1, <2>3
    DEF Rearmed, DeliveryInv, FiredPast, ArmedFired, FileFresh, DeliveredOnce, InCallback, Occurrence, thread, history
<1>2. ASSUME NEW i \in Ids, NEW r \in Requests, Update(i, r) PROVE DeliveryInv'
  <2> DEFINE m == Merged(items[i].sched, r)
             item == [sched |-> Edited(items[i].sched, m), due |-> Following(m), status |-> "pending"]
  <2>1. Save("request", [items EXCEPT ![i] = item]) /\ UNCHANGED <<now, thread, history>>
    BY <1>2 DEF Update
  <2>2. item.due \in Nat /\ item.due > now
    <3>1. items[i] \in Items /\ Following(m) # None
      BY <1>2, <1>t DEF Update, Edit
    <3>2. m \in Schedules
      BY <3>1, EditedTypes DEF Items
    <3> QED BY <3>1, <3>2, <1>t, NextDueLater DEF Following
  <2> HIDE DEF item
  <2>3. Rearmed(i)
    BY <2>1, <2>2, <1>a
  <2> QED BY <2>1, <2>3
    DEF Rearmed, DeliveryInv, FiredPast, ArmedFired, FileFresh, DeliveredOnce, InCallback, Occurrence, thread, history
<1>3. ASSUME NEW i \in Ids, NEW r \in Requests, UpdateRefused(i, r) PROVE DeliveryInv'
  <2>1. items[i] \in Items /\ UNCHANGED <<file, lock, now, thread, history>>
    BY <1>3, <1>t DEF UpdateRefused, Edit
  <2> DEFINE new == [items[i] EXCEPT !.sched = Edited(@, Merged(@, r))]
  <2>2. items' = [items EXCEPT ![i] = new]
    BY <1>3 DEF UpdateRefused
  <2>3. new.due = items[i].due /\ new.status = items[i].status /\ items[i] # None
    BY <2>1 DEF Items
  <2> HIDE DEF new
  <2>4. \A j \in Ids : Pending(items', j) => Pending(items, j) /\ Occurrence(items', j) = Occurrence(items, j)
    BY <1>t, <2>2, <2>3 DEF Pending, Occurrence
  <2> QED BY <2>1, <2>4
    DEF DeliveryInv, FiredPast, ArmedFired, FileFresh, DeliveredOnce, InCallback, Occurrence, thread, history
<1>4. ASSUME NEW i \in Ids, Delete(i) PROVE DeliveryInv'
  <2>1. \A j \in Ids : Pending(items', j) => Pending(items, j) /\ items'[j] = items[j]
    <3>1. items' = [items EXCEPT ![i] = None]
      BY <1>4 DEF Delete, Save
    <3>2. \A j \in Ids : items'[j] = IF j = i THEN None ELSE items[j]
      BY <1>t, <3>1
    <3> QED BY <3>2 DEF Pending
  <2>2. lock' # None /\ UNCHANGED <<now, thread, history>>
    BY <1>4 DEF Delete, Save
  <2> QED BY <2>1, <2>2
    DEF DeliveryInv, FiredPast, ArmedFired, FileFresh, DeliveredOnce, InCallback, Occurrence, thread, history
<1>5. CASE FinishSave
  BY <1>5 DEF FinishSave, DeliveryInv, FiredPast, ArmedFired, FileFresh, DeliveredOnce, InCallback, Occurrence, thread
<1>6. CASE Poll
  <2>1. \A i \in Ids : Pending(items, i) => Occurrence(items, i) \notin fired
    BY <1>6 DEF Poll, DeliveryInv, ArmedFired, InCallback
  <2>2. /\ UNCHANGED <<items, file, lock, now, fired, settled>> /\ pc' = "fire"
        /\ \A o \in batch' : \E i \in Ids : o = Occurrence(items, i) /\ Pending(items, i) /\ items[i].due <= now
    BY <1>6 DEF Poll, IsDue, store, history, Occurrence
  <2> QED BY <2>1, <2>2 DEF DeliveryInv, FiredPast, ArmedFired, FileFresh, DeliveredOnce, InCallback, Occurrence, Pending
<1>7. ASSUME NEW o \in batch, Fire(o) PROVE DeliveryInv'
  BY <1>7, <1>t
  DEF Fire, store, DeliveryInv, FiredPast, ArmedFired, FileFresh, DeliveredOnce, InCallback, Occurrence, Pending
<1>8. CASE TaskAnswers
  BY <1>8 DEF TaskAnswers, Save, store, history,
    DeliveryInv, FiredPast, ArmedFired, FileFresh, DeliveredOnce, InCallback, Occurrence, Pending
<1>9. CASE TaskFails \/ AdvanceRaises
  BY <1>9 DEF TaskFails, AdvanceRaises, store, history,
    DeliveryInv, FiredPast, ArmedFired, FileFresh, DeliveredOnce, InCallback, Occurrence, Pending
<1>10. CASE Advance
  <2> DEFINE i == firing[1]
  <2>1. /\ i \in Ids /\ UNCHANGED <<now, batch, fired, settled>> /\ lock = None /\ pc' = "fire"
        /\ \A j \in Ids : Pending(items, j) /\ Occurrence(items, j) \in fired => j = i
    BY <1>10 DEF Advance, history, DeliveryInv, ArmedFired, InCallback, Occurrence, Occurrences
  <2>2. CASE items[i] = None
    <3>1. UNCHANGED store
      BY <1>10, <2>2 DEF Advance
    <3> QED BY <2>1, <2>2, <3>1
      DEF store, DeliveryInv, FiredPast, ArmedFired, FileFresh, DeliveredOnce, InCallback, Pending
  <2>3. CASE items[i] # None
    <3> DEFINE item == Rolled(items[i])
    <3>1. ~Unplaceable(i) /\ Save("scheduler", [items EXCEPT ![i] = item])
      BY <1>10, <2>3 DEF Advance, Save
    <3>2. items[i] \in Items
      BY <1>t, <2>1, <2>3
    <3>3. item.status = "pending" => item.due \in Nat /\ item.due > now
      BY <3>1, <3>2, <1>t, NextDueLater DEF Rolled, Unplaceable, Following, Items
    <3> HIDE DEF item
    <3>4. Rearmed(i)
      BY <2>1, <3>1, <3>3, <1>a
    <3> QED BY <2>1, <3>4
      DEF Rearmed, DeliveryInv, FiredPast, ArmedFired, FileFresh, DeliveredOnce, InCallback, Occurrence
  <2> QED BY <2>2, <2>3
<1>11. CASE EndRound
  BY <1>11 DEF EndRound, store, history,
    DeliveryInv, FiredPast, ArmedFired, FileFresh, DeliveredOnce, InCallback, Occurrence, Pending
<1>12. CASE Tick
  <2>1. \A o \in fired \cup batch : o[2] <= now'
    BY <1>12, <1>t DEF Tick, DeliveryInv, FiredPast, Occurrences
  <2> QED BY <1>12, <2>1 DEF Tick, store, thread, history,
    DeliveryInv, FiredPast, ArmedFired, FileFresh, DeliveredOnce, InCallback, Occurrence, Pending
<1>13. CASE Crash
  <2>1. \A i \in Ids : Pending(Loaded, i) => Occurrence(Loaded, i) \notin settled
    BY DEF Loaded, NoItems, DeliveryInv, FileFresh, Pending
  <2> QED BY <1>13, <1>t, <2>1 DEF Crash,
    DeliveryInv, FiredPast, ArmedFired, FileFresh, DeliveredOnce, InCallback, Occurrence, Pending
<1>14. CASE UNCHANGED vars
  BY <1>14 DEF vars, DeliveryInv, FiredPast, ArmedFired, FileFresh, DeliveredOnce, InCallback, Occurrence, Pending
<1> QED
  BY <1>1, <1>2, <1>3, <1>4, <1>5, <1>6, <1>7, <1>8, <1>9, <1>10, <1>11, <1>12, <1>13, <1>14
  DEF Next, Scheduler

\* No occurrence is handed out twice.
THEOREM NoSecondDelivery == Spec => []DeliveredOnce
<1>1. Init => DeliveryInv
  BY DEF Init, DeliveryInv, FiredPast, ArmedFired, FileFresh, DeliveredOnce, InCallback, NoItems, Pending
<1>2. DeliveryInv => DeliveredOnce
  BY DEF DeliveryInv
<1> QED BY <1>1, <1>2, NextDelivered, ReminderTypes, PTL DEF Spec
=============================================================================
