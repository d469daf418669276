\* Two runs of download() with a stop(), a failure and a crash between them; the
\* second may have another number of threads.
SPECIFICATION Spec
CONSTANTS
  Sizes = {0, 2, 3}
  ThreadCounts = {1, 2}
  Chunk = 2
  FullBody = {}
  MaxRuns = 2
  MaxStops = 1
  MaxFailures = 1
INVARIANTS
  RecordedBytesWritten
  
  AtMostOneLateChunk
  RejectionNeedsRace
  TasksMatchCfg
\* A download that has returned is an end.
CHECK_DEADLOCK FALSE
