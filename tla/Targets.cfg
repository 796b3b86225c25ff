SPECIFICATION Spec
CHECK_DEADLOCK FALSE
CONSTANTS
  c1 = c1
  c2 = c2
  d1 = d1
  d2 = d2
  Commands = {c1, c2}
  Dirs = {d1, d2}
  NoDir = NoDir
  Nobody = Nobody
  Names = {"a", "b"}
  Endpoints = {"h1"}
  Accounts = {1, 2}
  TokenSpace = "a"
  FlagPrefixes = {"n1", ""}
  AWSEndpoints = {"x1", "x2"}
  Texts <- MCTexts
  Invocations <- MCInvocations
  Listings <- MCListings
  FirstFiles <- MCFiles
  FirstLogins <- MCLogins
  FirstStores <- MCStores
  TTL = 0
  MaxTime = 1
  MaxRuns = 2
  MaxEvents = 1
SYMMETRY CommandSymmetry
INVARIANTS
  RememberedNotebook
  StoreWasProbed
  DefaultsReachable
PROPERTIES
  RecordsKept
