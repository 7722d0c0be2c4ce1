\* Two foreign threads and the loop thread; one of the foreign threads calls
\* twice, so that its own calls have an order.  poll() has no timeout: only the
\* eventfd gets the loop thread out of it.
CONSTANTS
  LoopThread = L
  Callers = {t1, t2}
  Busy = {t1}
  Channels = {c1}
  MaxCalls = 2
  PollTimesOut = FALSE
SPECIFICATION FairSpec
INVARIANTS NoMissedWakeup NoMissedQuit ExactlyOnceInOrder
PROPERTIES ImplementsExecutor FunctorsRun QuitStopsLoop LoopComesToRest
\* Callers run out of calls and loop() may not be entered again.
CHECK_DEADLOCK FALSE
