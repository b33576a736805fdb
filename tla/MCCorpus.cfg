SPECIFICATION DatabaseSpec
CONSTANTS
  c1 = c1
  c2 = c2
  k1 = k1
  k2 = k2
  Conns = {c1, c2}
  Keys = {k1, k2}
  Chains = {"BTC", "LTC"}
  ChainOf <- MCChainOf
  Places = {"h1", "h2"}
  Origins <- MCOrigins
  Stamps = {"t1"}
  NoStamp = NoStamp
  NoRow = NoRow
  NoConn = NoConn
  Batches <- MCBatches
  Starter <- MCStarter
  Ids = {1, 2}
  Transactions = {"a1", "a2", "b1", "b2"}
  Claims <- MCClaims
  Sources = {"file", "backup"}
  BackupName = "backup"
  Evidence <- MCEvidence
  NoLink = NoLink
  NoClaim = NoClaim
  NoFile = NoFile
  Blocks = {1, 2, 3, 4}
  OwnChain <- MCOwnChain
  NoBlock = NoBlock
  NoEpoch = NoEpoch
  NoOrigin = NoOrigin
  BlockRows <- MCBlockRows
  Relations <- MCRelations
INVARIANTS TypeOK SourceVouched BackupRestores GradesAreEarned
PROPERTIES OnlyPruneForgets ImplementsLedger LinksAreWhole
SYMMETRY Symmetry
