\* One buffer and everything that can go wrong with it: erroneous done bits,
\* an exception at any access, also where nothing catches it, and a WrAddr that
\* splits an entry or leaves its region.
SPECIFICATION FairSpec
CONSTANTS
  Faults = {44}
  RingEntries = 2
  ChunkEntries = 1
  EntryUnits = 2
  BurstUnits = 1
  MaxUnits = 6
  MaxFaults = 2
  ErroneousDone = TRUE
  WildWrAddr = TRUE
  IoErrors = TRUE
INVARIANT StampNotEarly
PROPERTY LatchedIsRearmed
