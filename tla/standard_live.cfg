\* One array, bursts of an entry and a half, fairness of the poll loop only; no
\* access errors.
SPECIFICATION FairSpec
CONSTANTS
  NArrays = 1
  Arrays <- MCArrays
  Begin <- MCBegin
  End <- MCEnd
  EntryUnits = 2
  BurstUnits = 3
  RingEntries = 3
  PvDepth = 2
  AcqUnits = 9
  LastStart = 3
  AtEnd = {"end", "begin"}
  IncrementalTs = TRUE
  WildWrAddr = TRUE
  IoErrors = FALSE
PROPERTIES NewAcqAcked WrittenIsRead
