\* One array with the repository's sizes in units of 128 bytes: entries of 384
\* bytes, bursts of 2 kB, which end inside an entry.  Acquisitions longer than the
\* ring, wild WrAddr, access errors.
SPECIFICATION Spec
CONSTANTS
  NArrays = 1
  Arrays <- MCArrays
  Begin <- MCBegin
  End <- MCEnd
  EntryUnits = 3
  BurstUnits = 16
  RingEntries = 16
  PvDepth = 4
  AcqUnits = 80
  LastStart = 3
  AtEnd = {"end"}
  IncrementalTs = TRUE
  WildWrAddr = TRUE
  IoErrors = TRUE
INVARIANTS TypeOK RecordAssigned FetchInRegion PvIsNewest SettledMeansDelivered
