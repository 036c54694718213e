\* Two buffers, each latched twice, rings of three entries read in chunks of two.
SPECIFICATION Spec
CONSTANTS
  Faults = {44, 45}
  RingEntries = 3
  ChunkEntries = 2
  EntryUnits = 2
  BurstUnits = 2
  MaxUnits = 14
  MaxFaults = 2
  ErroneousDone = FALSE
  WildWrAddr = FALSE
  IoErrors = FALSE
INVARIANTS TypeOK OneReadout ChunkInRegion ReadoutExact StampNotEarly
PROPERTY LatchedNotDiscarded
