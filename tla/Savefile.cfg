CONSTANTS
    Files <- MCFiles
    Ten = 6
    Micro = 36
    Nano = 216
    Width = 8
    Big = 1000
    MAXIMUM_SNAPLEN = 100
    MaxBlock = 150
    Counts = {0, 1, 2}
    MaxCalls = 2
    MaxFaults = 1
SPECIFICATION Spec
INVARIANTS
  PacketsAreRight
  CallsAreExact
  CopyIsRight
CHECK_DEADLOCK FALSE
