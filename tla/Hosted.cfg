SPECIFICATION Spec
CHECK_DEADLOCK FALSE
CONSTANTS
  Slots = 2
  Ids = {1, 2}
  First = 1
  Cursors = {"p1"}
  Grants <- MCGrants
  None = None
  Nobody = Nobody
  Attempts = 2
  Batches = 2
  MaxCalls = 3
  MaxFaults = 2
INVARIANTS
  OneSpace
  AnswersAreTrue
PROPERTIES
  MintsAreNeeded
  CallsReturn
