\* An aborted reader stays at the front of the queue.
SPECIFICATION FairSpec
CONSTANTS
  Faults = {44, 45}
  RingEntries = 2
  ChunkEntries = 1
  EntryUnits = 1
  BurstUnits = 1
  MaxUnits = 4
  MaxFaults = 1
  ErroneousDone = FALSE
  WildWrAddr = FALSE
  IoErrors = TRUE
PROPERTY LatchedIsRearmed
