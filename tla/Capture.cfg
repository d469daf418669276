CONSTANTS
    Handles <- MCHandles
    CPUs <- MCCPUs
    MAXIMUM_SNAPLEN = 99
    USHRT_MAX = 8
    Frames = 3
    BlockCap = 2
    VEC_SIZE = 2
    Counts = {0, 2}
    MaxPackets = 4
    MaxFaults = 1
SPECIFICATION Spec
INVARIANTS
    
    
    CountersAccount
    OnlyWaitingAreHeld
PROPERTIES
    
    BreakEndsCall
CHECK_DEADLOCK FALSE
