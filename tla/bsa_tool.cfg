\* bsa_tst and other programs one after the other on one carrier.
SPECIFICATION ToolSpec
CONSTANTS
  NBSAARRAYS = 1
  HSTARRAYN = 2
  ArrayUnits = 2
  FaultUnits = 5
  Waves = {0, 1, 2, 3}
  Sizes = {5}
  BlockUnits = 4
  MaxMem = 40
  Group = 2
  NDiags = {3, 5}
  DiagUnits = 4
  Fetched = {1}
  Captured = {3}
  Ring = 2
  MaxWrites = 3
  MaxRewinds = 2
  MaxOther = 3
  MaxRuns = 2
INVARIANTS ArraysDisjoint WavesDisjoint EnabledDisjoint CapturesDisjoint DumpIsOneCapture FetchIsNewest
 
CHECK_DEADLOCK FALSE
