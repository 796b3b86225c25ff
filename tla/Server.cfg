SPECIFICATION FairSpec
CONSTANTS
  Calls = {c1, c2, c3}
  MaxOther = 2
CHECK_DEADLOCK FALSE
INVARIANTS
  OneWriter
  ShutdownInOrder
  TornIsFlagged
PROPERTIES
  EverythingEnds
