SPECIFICATION FairSpec
CONSTANTS
  N = 5
  Workers = {w1, w2, w3}
INVARIANTS
  InOrder
  LowestInFlight
PROPERTIES
  EveryoneLeaves
CHECK_DEADLOCK FALSE
