SPECIFICATION FairSpec
CONSTANTS
  Procs = {p1, p2}
  Paths = {q1}
  Contents = {a, b}
  Ignored = {}
  RecordLoss = TRUE
  RepoLoss = TRUE
  ObjectLoss = TRUE
  MaxFaults = 2
  MaxGen = 2
INVARIANTS
  BaselineFollowsR
  TrustedMeansWhole
PROPERTIES
  CallsEnd
