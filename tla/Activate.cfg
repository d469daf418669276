CONSTANTS
    Devices <- MCDevices
    Values <- MCValues
    MAXIMUM_SNAPLEN = 512
    PageSize = 64
    DefaultBuffer = 1536
    MaxFaults = 1
    MaxSets = 2
    MaxTries = 2
SPECIFICATION Spec
INVARIANTS
  ChangesAreUndone
  MemoryIsSound
  HandleIsUsable
PROPERTY
  CallsReturn
CHECK_DEADLOCK FALSE
