SPECIFICATION SmallSpec
CONSTANTS
  x1 = x1
  x2 = x2
  f1 = f1
  f2 = f2
  Schedules = {x1, x2}
  NoSchedule = NoSchedule
  Runs = {1, 2}
  Requests = {1, 2}
  Fingerprints = {f1, f2}
  Plans <- OnceOrEvery
  LATE_GRACE = 0
  MaxTime = 2
  MaxFaults = 1
  Touched = {x1}
  MaxLoad = 3

INVARIANTS NoOverlap ActiveHasNext OnceWithoutCrash HistoryTellsRuns
PROPERTIES ScheduleMovesOn
