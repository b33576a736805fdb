SPECIFICATION FairPublication
CONSTANTS
  w1 = w1
  w2 = w2
  Workers = {w1, w2}
  MaxRuns = 1
  Inodes = {1, 2, 3, 4, 5}
  NoFile = NoFile
  Hole = Hole
  Chunks = 2
  FaultyDisk = {w1}
  Serials = {1, 2, 3}
  Recipes = {"A", "H", "X"}
  Identity <- MCIdentity
  UserFile = "user"
  Proofs = {"R", "S", "B"}
  Suffix <- MCSuffix
  Covers <- MCCovers
  Nobody = Nobody
INVARIANT ReportedMapIsOwn
CHECK_DEADLOCK FALSE
