CONSTANTS
  MaxTimers = 2
  MaxTime = 3
  MaxSteps = 1
  Intervals = {1}
SPECIFICATION Spec
INVARIANT CancelStopsTimer
CHECK_DEADLOCK FALSE
