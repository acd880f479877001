\* Days 0 to 2, history of one day and three changes, two requests, whose
\* summaries overlap until tick 2, the first of day 1; two days of three minutes
\* of three seconds.
SPECIFICATION Spec
CONSTANTS
  Request = {r1, r2}
  DayStart <- MCDayStart
  LastDay = 2
  Standard = 2
  Retention = 1
  WeekDays = 2
  MaxChanges = 3
  MaxRequests = 2
  MaxOverlap = 2
  MaxChanging = 2
  Days = 2
  MinutesPerDay = 3
  SecondsPerMinute = 3
SYMMETRY Symmetry
CHECK_DEADLOCK FALSE
INVARIANTS AnswersHold DaysAreRight
PROPERTY RightTotalsStay
