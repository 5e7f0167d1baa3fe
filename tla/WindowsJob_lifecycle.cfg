SPECIFICATION JobFairSpec
CONSTANTS
  Kids = {"kid1", "kid2"}
  MaxJobFaults = 2
INVARIANTS Contained
PROPERTIES HandleOutlivesTree TreeEnds
CHECK_DEADLOCK FALSE
