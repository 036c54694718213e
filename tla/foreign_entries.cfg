\* Bursts that split entries: another array's entries are shown.
SPECIFICATION Spec
CONSTANTS
  NArrays = 2
  Arrays <- MCArrays
  Begin <- MCBegin
  End <- MCEnd
  EntryUnits = 2
  BurstUnits = 3
  RingEntries = 3
  PvDepth = 2
  AcqUnits = 6
  LastStart = 1
  AtEnd = {"end", "begin"}
  IncrementalTs = TRUE
  WildWrAddr = FALSE
  IoErrors = FALSE
INVARIANT PvFromOwnArray
