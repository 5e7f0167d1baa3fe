SPECIFICATION FairSpec
CONSTANTS
  MaxCalls = 3
  MaxFaults = 2
INVARIANTS
  NothingForgotten
PROPERTIES
  ImplementsFileAccess
  DiesWithCaller
  AccessReturns
CHECK_DEADLOCK FALSE
