\* Two clients of the acquisition control; two threads of a service; two
\* senders among other descriptors of their process; three waveforms of four
\* values; a stream of two cycles of ids.
SPECIFICATION MCSpec
CONSTANTS
  c1 = c1
  c2 = c2
  h1 = h1
  h2 = h2
  Clients = {c1, c2}
  ArrayOf <- MCArrayOf
  MaxStarts = 3
  Threads = {c1, c2}
  Channels = {0, 1}
  Beyond = {2}
  EnableArgs = {1, 2}
  SevrArgs = {1, 6}
  EdefWords = {1}
  MaxCalls = 2
  Handles = {h1, h2}
  MaxFd = 2
  Steps = 2
  MaxInits = 4
  Depth = 4
  NPvs = 2
  Strides = {1, 2}
  MaxFetch = 3
  MaxPid = 10
  Cycle = 3
  MaxPulse = 6
  MaxRead = 4
  MaxPrints = 2
INVARIANTS LeavesWhenDone CompletionNotLost FieldsAsAsked OwnDescriptor RowsAligned FlushInBounds FlushJudgesWindow SilenceMeansContiguous BytesNotBehind
PROPERTIES PollEnds ShowsNewest
CHECK_DEADLOCK FALSE
