SPECIFICATION Spec
CONSTANTS
  Writers = {w1, w2}
  RetryLimit = 0
  CheckpointPacks = 1
  RetainedCheckpoints = 0
  CleanupBatch = 2
  Hosted = FALSE
  LocalFaults = FALSE
  SDKRetries = TRUE
  MaxIDs = 3
  MaxLate = 1
SYMMETRY WriterSymmetry
INVARIANTS
  ReferencedPacksExist
  StaleReadMoved
  OKMeansAccepted
  ProposalsEncode
  ChainIsHistory
PROPERTIES
  NewRootsAboveCutoff
