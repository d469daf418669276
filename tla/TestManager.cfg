\* Runs that are stopped at any point, and configurations that do not load.
SPECIFICATION FairSpec
CONSTANTS
  MaxStarts = 4
  MaxTests = 3
  BadConfig = {"load", "parse"}
INVARIANTS
  OneRunAtATime
  NoTestLeftBehind
PROPERTY
  EveryRunEnds
