CONSTANTS
  Pcaps <- MCPcaps
  Packets = {n1, n2}
  Views <- MCViews
  Kinds = {"offline", "batch", "dead"}
  Callbacks = {"handler", "bytes", "jbuffer", "packet", "dumper"}
  Counts <- MCCounts
  Caplen <- Aligned
  Machines <- MCMachines
  HeaderSize = 16
  StateSize = 8
  MaxCopy = 1000
  BlockSize = 80
  Blocks = {b1, b2}
  MaxCopies = 2
  MaxFaults = 1
SPECIFICATION Spec
SYMMETRY Interchangeable
INVARIANTS
  OneReferencePerBlock
  UsesAreValid
  DevicesListed
CHECK_DEADLOCK FALSE
