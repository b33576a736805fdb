SPECIFICATION SearchSpec
CONSTANTS
  N = 4
  MaxChunk = 3
  Chains = {1, 2}
  Tables <- MCTables
  Weightings <- MCWeightings
  NoWeights = NoWeights
  Requests = {30, 50, 75, 100}
  ByteValues = {0, 1}
  MaxTarget = 4
  Sources <- MCSources
  MaxRecords = 2
  ShortMax = 1
  LongPrefix = 2
INVARIANTS TypeOK RecipeFits FewestIsMinimal RefusalIsHonest AccountsAreTrue QuotasHold CandidateIsFirstLongest
CHECK_DEADLOCK FALSE
