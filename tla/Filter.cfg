CONSTANTS
    BPF_MEMWORDS = 16
    HostSwap = TRUE
    JumpRange = 16
    Garbage = {0, 255}
    Exprs <- MCExprs
    Calls <- MCCalls
    Packets <- MCPackets
    RawPrograms <- MCRawPrograms
SPECIFICATION Spec
INVARIANTS
  
  ProgramIsSafe
  TablesFit
PROPERTY
  FilterTerminates
