SPECIFICATION AcquisitionSpec
CONSTANTS
  First = 0
  Last = 4
  BatchSize = 2
  Hashes = {x, y}
  Missing = Missing
  SeedBatch = 2
  Budget = 4
  ChunkSize = 2
  NoHeight = NoHeight
CHECK_DEADLOCK FALSE
INVARIANT SeedResumeSkipsNothing
