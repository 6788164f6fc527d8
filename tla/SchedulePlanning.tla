-------------------------- MODULE SchedulePlanning --------------------------
(***************************************************************************)
(* When a ticket is due: the working calendar of                           *)
(* services/tickets/schedule.ts, and the four who write a ticket's points, *)
(* its due date and its schedule state: the transition that starts it, the *)
(* owner's patch, the planner's estimate (pointEstimate.ts) and the scan   *)
(* (scanSchedule).  One ticket, one call of each at a time, one action per *)
(* statement.                                                              *)
(*                                                                         *)
(* Time is counted in units of which a minute has MinuteUnits and a day    *)
(* DayLength; time zones and their folds are left out.  Day 0 is the first *)
(* of a week.                                                              *)
(***************************************************************************)
EXTENDS Integers, FiniteSets

CONSTANTS MinuteUnits,     \* units of a minute
          DayLength,       \* units of a day
          Open, Close,     \* working hours within it, in units
          WeekLength,      \* days of a week
          WorkDay,         \* ARIA_WORKDAYS, counted from 0
          Points,          \* STORY_POINTS, those in use
          FirstPoints,     \* the heuristic's estimate
          Risk,            \* ARIA_SCHEDULE_RISK_RATIO, in percent
          SprintDays,      \* ARIA_SPRINT_WORKDAYS
          Horizon,         \* bound of the model: the clock's last unit
          MaxPatches       \* bound of the model: the owner's patches

ASSUME PlanningAssumption ==
  /\ {MinuteUnits, DayLength, WeekLength, SprintDays, Horizon} \subseteq Nat \ {0}
  /\ {Open, Close, Risk, MaxPatches} \subseteq Nat /\ Open < Close /\ Close <= DayLength
  /\ \A t \in {DayLength, Open, Close} : t % MinuteUnits = 0
  /\ WorkDay \subseteq 0 .. WeekLength - 1 /\ WorkDay # {}
  /\ Points \subseteq Nat \ {0} /\ FirstPoints \in Points

None == -1

VARIABLES
  now,        \* the clock
  points,     \* tickets.story_points
  started,    \* work_started_at
  due,        \* due_at
  schedule,   \* schedule_state
  decided,    \* is there an owner_decision event
  planner,    \* the story_points run: where it stands, what it read, its points
  patch,      \* the owner's updateTicket, likewise
  scan,       \* scanSchedule, likewise
  ownerWants, \* history: the points of the owner's last patch
  raced,      \* history: calls that write the points have overlapped
  patches     \* history: how many patches there were

planningVars == <<now, points, started, due, schedule, decided, planner, patch, scan,
                  ownerWants, raced, patches>>

Instant == 0 .. Horizon
Alert == {"on_track", "at_risk", "overdue"}

-----------------------------------------------------------------------------
DayOf(t) == t \div DayLength
IsWorkDay(day) == (day % WeekLength) \in WorkDay
OpenOf(day) == day * DayLength + Open
CloseOf(day) == day * DayLength + Close
HoursPerDay == Close - Open
Later(a, b) == IF a > b THEN a ELSE b
Sooner(a, b) == IF a < b THEN a ELSE b

\* Math.round of a time in minutes.
Minutes(units) == (2 * units + MinuteUnits) \div (2 * MinuteUnits)

\* dueAt: the working minutes left are taken day by day, from the opening when the
\* day has not opened; what a day has left is rounded to whole minutes.  What ends
\* with a day is due when the next day opens, a working day or not.
DueFromClosed[x \in Nat \X Nat] ==
  LET t == x[1]
      left == x[2]
      day == DayOf(t)
      available == Minutes(CloseOf(day) - t)
  IN  IF ~IsWorkDay(day) \/ t >= CloseOf(day) THEN DueFromClosed[<<OpenOf(day + 1), left>>]
      ELSE IF available > left THEN t + left * MinuteUnits
      ELSE IF available = left THEN OpenOf(day + 1)
      ELSE DueFromClosed[<<OpenOf(day + 1), left - available>>]
DueFrom[x \in Nat \X Nat] ==
  LET t == x[1]
      left == x[2]
      day == DayOf(t)
      from == Later(t, OpenOf(day))
      available == Minutes(CloseOf(day) - from)
  IN  IF ~IsWorkDay(day) \/ t >= CloseOf(day) THEN DueFrom[<<OpenOf(day + 1), left>>]
      ELSE IF available > left THEN from + left * MinuteUnits
      ELSE IF available = left THEN OpenOf(day + 1)
      ELSE DueFrom[<<OpenOf(day + 1), left - available>>]
DueAtAnyHour(start, p) == DueFromClosed[<<start, p * (HoursPerDay \div MinuteUnits)>>]
DueAt(start, p) == DueFrom[<<start, p * (HoursPerDay \div MinuteUnits)>>]

\* workingMsBetween, from x[1] to x[2].
Worked[x \in Nat \X Nat] ==
  LET t == x[1]
      end == x[2]
      day == DayOf(t)
      from == Later(OpenOf(day), t)
      to == Sooner(CloseOf(day), end)
  IN  IF t >= end THEN 0
      ELSE (IF IsWorkDay(day) THEN Later(0, to - from) ELSE 0) + Worked[<<OpenOf(day + 1), end>>]

\* addWorkingDays: the day on which the x[2]-th working day falls, day x[1] included.
NthWorkDay[x \in Nat \X (Nat \ {0})] ==
  LET day == x[1]
      n == x[2]
  IN  IF ~IsWorkDay(day) THEN NthWorkDay[<<day + 1, n>>]
      ELSE IF n = 1 THEN day ELSE NthWorkDay[<<day + 1, n - 1>>]

ScheduleState(start, end, p, t) ==
  IF t > end THEN "overdue"
  ELSE IF 100 * Worked[<<start, t>>] >= Risk * p * HoursPerDay THEN "at_risk"
  ELSE "on_track"

-----------------------------------------------------------------------------
PlanningTypeOK ==
  /\ now \in Instant
  /\ points \in Points
  /\ started \in Instant \cup {None} /\ due \in Int /\ (started = None <=> due = None)
  /\ schedule \in {"not_started", "done"} \cup Alert
  /\ decided \in BOOLEAN /\ raced \in BOOLEAN
  /\ planner.at \in {"asked", "read", "write", "due", "ended"}
  /\ patch.at \in {"idle", "read", "written"}
  /\ scan.at \in {"idle", "read", "written"}
  /\ {planner.points, patch.points} \subseteq Points \cup {None}
  /\ {planner.started, patch.started, scan.started} \subseteq Instant \cup {None}
  /\ ownerWants \in Points \cup {None} /\ patches \in 0 .. MaxPatches

PlanningInit ==
  /\ now = 0
  /\ points = FirstPoints
  /\ started = None /\ due = None /\ schedule = "not_started"
  /\ decided = FALSE
  /\ planner = [at |-> "asked", started |-> None, points |-> None]
  /\ patch = [at |-> "idle", started |-> None, points |-> None]
  /\ scan = [at |-> "idle", started |-> None, state |-> "on_track"]
  /\ ownerWants = None /\ raced = FALSE /\ patches = 0

PlannerAtWork == planner.at \in {"read", "write", "due"}
PatchAtWork == patch.at # "idle"

Tick ==
  /\ now < Horizon
  /\ now' = now + 1
  /\ UNCHANGED <<points, started, due, schedule, decided, planner, patch, scan, ownerWants, raced, patches>>

\* applyTransition, the first time the ticket is in progress; the row is locked.
StartWork ==
  /\ started = None
  /\ started' = now
  /\ due' = DueAt(now, points)
  /\ schedule' = "on_track"
  /\ raced' = (raced \/ PlannerAtWork \/ PatchAtWork)
  /\ UNCHANGED <<now, points, decided, planner, patch, scan, ownerWants, patches>>
\* ..., and when it is done or rejected.
EndWork ==
  /\ schedule # "done"
  /\ schedule' = "done"
  /\ UNCHANGED <<now, points, started, due, decided, planner, patch, scan, ownerWants, raced, patches>>

\* executeStoryPoints, when the model has answered: the ticket as it is, ...
PlannerReads ==
  /\ planner.at = "asked"
  /\ \E p \in Points : planner' = [at |-> "read", started |-> started, points |-> p]
  /\ raced' = (raced \/ PatchAtWork)
  /\ UNCHANGED <<now, points, started, due, schedule, decided, patch, scan, ownerWants, patches>>
\* ... whether the owner has decided, ...
PlannerOverrules ==
  /\ planner.at = "read"
  /\ planner' = [planner EXCEPT !.at = "write"]
  /\ UNCHANGED <<now, points, started, due, schedule, decided, patch, scan, ownerWants, raced, patches>>
PlannerLooks ==
  /\ planner.at = "read"
  /\ planner' = IF decided THEN [planner EXCEPT !.at = "due", !.points = points]
                ELSE [planner EXCEPT !.at = "write"]
  /\ UNCHANGED <<now, points, started, due, schedule, decided, patch, scan, ownerWants, raced, patches>>
\* ... the points, ...
PlannerWrites ==
  /\ planner.at = "write"
  /\ points' = planner.points
  /\ planner' = [planner EXCEPT !.at = "due"]
  /\ UNCHANGED <<now, started, due, schedule, decided, patch, scan, ownerWants, raced, patches>>
\* ... and the due date, if the work had started when it read the ticket.
PlannerDates ==
  /\ planner.at = "due"
  /\ due' = IF planner.started = None THEN due ELSE DueAt(planner.started, planner.points)
  /\ planner' = [planner EXCEPT !.at = "ended"]
  /\ UNCHANGED <<now, points, started, schedule, decided, patch, scan, ownerWants, raced, patches>>

\* updateTicket with points: the ticket is read, written, and the decision told.
PatchReads ==
  /\ patch.at = "idle" /\ patches < MaxPatches
  /\ patches' = patches + 1
  /\ \E p \in Points : patch' = [at |-> "read", started |-> started, points |-> p]
  /\ raced' = (raced \/ PlannerAtWork)
  /\ UNCHANGED <<now, points, started, due, schedule, decided, planner, scan, ownerWants>>
PatchWrites ==
  /\ patch.at = "read"
  /\ points' = patch.points
  /\ due' = IF patch.started = None THEN due ELSE DueAt(patch.started, patch.points)
  /\ ownerWants' = patch.points
  /\ patch' = [patch EXCEPT !.at = "written"]
  /\ UNCHANGED <<now, started, schedule, decided, planner, scan, raced, patches>>
PatchTells ==
  /\ patch.at = "written"
  /\ decided' = TRUE
  /\ patch' = [patch EXCEPT !.at = "idle"]
  /\ UNCHANGED <<now, points, started, due, schedule, planner, scan, ownerWants, raced, patches>>

\* scanSchedule: the tickets started and at work, and what their state should be by
\* now (a ticket may be put back to work after its end: the status is left open); ...
ScanReads ==
  /\ scan.at = "idle" /\ started # None
  /\ LET state == ScheduleState(started, due, points, now)
     IN  /\ state # schedule
         /\ scan' = [at |-> "read", started |-> started, state |-> state]
  /\ UNCHANGED <<now, points, started, due, schedule, decided, planner, patch, ownerWants, raced, patches>>
\* ... the state, by the ticket's id alone; ...
ScanWrites ==
  /\ scan.at = "read"
  /\ schedule' = scan.state
  /\ scan' = [scan EXCEPT !.at = "written"]
  /\ UNCHANGED <<now, points, started, due, decided, planner, patch, ownerWants, raced, patches>>
\* ... and the events of an alert, or an exception instead of them.
ScanTells ==
  /\ scan.at = "written"
  /\ scan' = [scan EXCEPT !.at = "idle"]
  /\ UNCHANGED <<now, points, started, due, schedule, decided, planner, patch, ownerWants, raced, patches>>

PlanningNext ==
  \/ Tick \/ StartWork \/ EndWork
  \/ PlannerReads \/ PlannerLooks \/ PlannerWrites \/ PlannerDates
  \/ PatchReads \/ PatchWrites \/ PatchTells
  \/ ScanReads \/ ScanWrites \/ ScanTells

PlanningSpec == PlanningInit /\ [][PlanningNext]_planningVars

-----------------------------------------------------------------------------
\* The working units between two instants, one by one.
IsWorkingUnit(u) == IsWorkDay(DayOf(u)) /\ OpenOf(DayOf(u)) <= u /\ u < CloseOf(DayOf(u))
UnitsBetween(a, b) == Cardinality({u \in a .. b - 1 : IsWorkingUnit(u)})

\* The minute in which a ticket is started is rounded to the half, if it is one of
\* working time and has begun: twice what a due date may be off by.
Leeway(start) == IF IsWorkingUnit(start) /\ start % MinuteUnits # 0 THEN MinuteUnits ELSE 0

\* A ticket started on a whole minute, or outside the working hours, is due when
\* exactly its points in working days have been worked, whatever nights and
\* weekends lie in between; one started within a minute is at most half a minute
\* off, however many days it takes.  What the scan counts as worked is what was
\* worked, so it calls no ticket overdue before the budget is used up and none on
\* track after, but for that half minute; and a sprint holds its number of working
\* days, the last of them its last day.
CalendarExact ==
  /\ \A p \in Points :
       LET worked == UnitsBetween(now, DueAt(now, p))
       IN  /\ 2 * worked <= 2 * p * HoursPerDay + Leeway(now)
           /\ 2 * worked >= 2 * p * HoursPerDay - Leeway(now)
  /\ started # None =>
       /\ Worked[<<started, now>>] = UnitsBetween(started, now)
       /\ \A p \in Points :
            LET state == ScheduleState(started, DueAt(started, p), p, now)
                worked == UnitsBetween(started, now)
            IN  /\ state = "overdue" => 2 * worked >= 2 * p * HoursPerDay - Leeway(started)
                /\ 2 * worked > 2 * p * HoursPerDay + Leeway(started) => state = "overdue"
  /\ LET last == NthWorkDay[<<DayOf(now), SprintDays>>]
     IN  IsWorkDay(last) /\ Cardinality({d \in DayOf(now) .. last : IsWorkDay(d)}) = SprintDays

\* The planner never replaces the points an owner has set, and the due date is
\* that of the points whoever set them, before the work started or since: as
\* long as the planner's statements, the owner's and the start of the work do
\* not run between each other's.
OwnersPointsStand ==
  ~raced /\ ~PatchAtWork /\ ~PlannerAtWork =>
    /\ ownerWants # None => points = ownerWants
    /\ started # None => due = DueAt(started, points)
=============================================================================
