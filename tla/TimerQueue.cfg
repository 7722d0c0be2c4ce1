CONSTANTS
  MaxTimers = 2
  MaxTime = 3
  MaxSteps = 1
  Intervals = {1}
SPECIFICATION FairSpec
INVARIANTS TypeOK SetsAgree OneOwner ArmedInTime CancelTakesEffect
PROPERTY TimersRun
\* Timers run out.
CHECK_DEADLOCK FALSE
