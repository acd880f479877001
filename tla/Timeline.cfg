\* Two days of three minutes of three seconds.
SPECIFICATION TimelineSpec
CONSTANTS
  Days = 2
  MinutesPerDay = 3
  SecondsPerMinute = 3
CHECK_DEADLOCK FALSE
INVARIANT DayShowsItself
