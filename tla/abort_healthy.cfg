\* A healthy acquisition is aborted.
SPECIFICATION Spec
CONSTANTS
  NArrays = 1
  Arrays <- MCArrays
  Begin <- MCBegin
  End <- MCEnd
  EntryUnits = 2
  BurstUnits = 2
  RingEntries = 3
  PvDepth = 2
  AcqUnits = 6
  LastStart = 1
  AtEnd = {"end", "begin"}
  IncrementalTs = TRUE
  WildWrAddr = FALSE
  IoErrors = FALSE
INVARIANT HealthyNotAborted
