\* Firmware that moves the time stamp only when an acquisition starts,
\* and bursts that split entries.
SPECIFICATION Spec
CONSTANTS
  NArrays = 1
  Arrays <- MCArrays
  Begin <- MCBegin
  End <- MCEnd
  EntryUnits = 2
  BurstUnits = 3
  RingEntries = 3
  PvDepth = 2
  AcqUnits = 6
  LastStart = 3
  AtEnd = {"end", "begin"}
  IncrementalTs = FALSE
  WildWrAddr = TRUE
  IoErrors = TRUE
INVARIANT NewAcqVisible
