\* Datagrams of up to three events of one or two channels, cut off at 12 words:
\* between two events or inside one; two interrupts and two failing accesses.
SPECIFICATION Spec
CONSTANTS
  Channels = {1, 2}
  BuffWords = 12
  DumpPackets = {1}
  InOrder = TRUE
  MaxEvents = 3
  MaxInts = 2
  MaxErrs = 2
INVARIANTS TypeOK EndsDisabled EventsExact ReportConsistent
CHECK_DEADLOCK FALSE
