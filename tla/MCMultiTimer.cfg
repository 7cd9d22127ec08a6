\* Two callers, two timers, two periods, four calls, two lives of two
\* milliseconds, a thread that may not start.
CONSTANTS
  Caller = {c1, c2}
  Period = {1, 2}
  ThreadFails = TRUE
  MaxTimers = 2
  MaxCalls = 4
  MaxInits = 2
  MaxTime = 2
SPECIFICATION FairSpec
CHECK_DEADLOCK FALSE
INVARIANTS
  TypeOK
  OnePlace
  DestroyedForGood
  DueWithinPeriod
PROPERTIES
  RunningFires
