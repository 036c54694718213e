\* Two arrays that share the poll thread and the record; a burst is an entry and
\* a half.
SPECIFICATION Spec
CONSTANTS
  NArrays = 2
  Arrays <- MCArrays
  Begin <- MCBegin
  End <- MCEnd
  EntryUnits = 2
  BurstUnits = 3
  RingEntries = 3
  PvDepth = 2
  AcqUnits = 9
  LastStart = 2
  AtEnd = {"begin"}
  IncrementalTs = TRUE
  WildWrAddr = FALSE
  IoErrors = FALSE
INVARIANT PvIsNewest
