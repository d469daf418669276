\* One or two dialled calls; one incoming call beside a single dialled one.
SPECIFICATION FairSpec
CONSTANTS
  Counts = {1, 2}
  CallTimes = {0, 10}
  MaxCalls = 2
INVARIANTS
  LoneTimer
  CleanEnd
PROPERTIES
  TimerEndsOwnCall
  TestEnds
\* After call() has returned and the phone is quiet nothing is left to do.
CHECK_DEADLOCK FALSE
