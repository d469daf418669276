\* Two frames in one or two files, one failing read, a stop at any point.
SPECIFICATION FairSpec
CONSTANTS
  Stream <- MCStream
  Buffer = 3
  DecodeMax = 5
  MaxFiles = 2
  MaxErrors = 1
  OldestFirst = TRUE

  
PROPERTIES
  
  
  ThreadsEnd
\* After stop() everything ends.
CHECK_DEADLOCK FALSE
