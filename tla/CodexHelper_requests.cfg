SPECIFICATION FairSpec
CONSTANTS
  c1 = c1
  c2 = c2
  Caller = {c1, c2}
  MaxRequests = 2
  MaxFaults = 2
INVARIANTS
  NothingLost
  OneHelper
PROPERTIES
  HelperDiesWithOwner
  RequestEnds
