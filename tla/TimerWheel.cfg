CONSTANTS
  Timer = {t1, t2}
  Tick = 2
  WheelSize = 2
  Intervals = {0}
  MaxDelay = 3
  MaxLevel = 3
  LastAdd = 6
  MaxTime = 16
SPECIFICATION FairSpec
PROPERTY TimersRun
\* Time stops at MaxTime, a failed cancel ends the program.
CHECK_DEADLOCK FALSE
