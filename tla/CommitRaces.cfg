SPECIFICATION FairSpec
CONSTANTS
  Writers = {w1, w2}
  RetryLimit = 1
  CheckpointPacks = 1
  RetainedCheckpoints = 1
  CleanupBatch = 2
  Hosted = TRUE
  LocalFaults = TRUE
  SDKRetries = FALSE
  MaxIDs = 2
  MaxLate = 0
INVARIANTS
  TypeOK
  BaselineAccepted
PROPERTIES
  ImplementsLog
  LostMeansAnotherWon
  CallsReturn
