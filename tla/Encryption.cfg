SPECIFICATION Spec
CONSTANTS
  Procs = {p1, p2}
  p1 = p1
  p2 = p2
  Commands <- MCCommands
  Pass = {s1}
  Env <- MCEnv
  NoSecret = NoSecret
  RetryLimit = 1
  MaxFresh = 3
  MaxVer = 3
INVARIANTS
  RootsReadable
  SecretsOpen
PROPERTIES
  NothingLost
