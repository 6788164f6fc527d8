SPECIFICATION ServicesSpec
SYMMETRY MCSymmetry
CONSTANTS
  r1 = r1
  r2 = r2
  q1 = q1
  q2 = q2
  w1 = w1
  w2 = w2
  Repo = {r1, r2}
  Request = {q1, q2}
  Asked <- MCAsked
  Worker = {w1, w2}
  NoJob = nojob
  MaxMishaps = 1
  MinuteUnits = 2
  DayLength = 6
  Open = 2
  Close = 4
  WeekLength = 3
  WorkDay = {0, 2}
  Points = {1, 2}
  FirstPoints = 1
  Risk = 80
  SprintDays = 3
  Horizon = 15
  MaxPatches = 1
INVARIANTS EnrichmentFollows SlicesKept CalendarExact OwnersPointsStand
CHECK_DEADLOCK FALSE
