CONSTANTS
  MaxTimers = 3
  MaxTicks = 2
  Intervals = {0, 1}
SPECIFICATION AlarmSpec
INVARIANT DisarmStopsTimer
CHECK_DEADLOCK FALSE
