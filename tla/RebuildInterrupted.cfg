SPECIFICATION Spec
CONSTANTS
  Procs = {p1, p2}
  Paths = {q1, q2}
  Contents = {a, b}
  Ignored = {}
  RecordLoss = FALSE
  RepoLoss = TRUE
  ObjectLoss = FALSE
  MaxFaults = 2
  MaxGen = 1
SYMMETRY SharedSymmetry
INVARIANT BaselineHeld
