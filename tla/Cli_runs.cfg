SPECIFICATION Spec
CONSTANTS
  MaxWindows = 4
  MaxTooltip = 3
  MaxRuns = 2
  Unsafe <- SampleUnsafe
  Snapshots <- SampleSnapshots
  Rooms <- SampleRooms
INVARIANTS
  CacheServesThisRun
  SameEitherWay
  ProjectedIsAccepted
  ReturnedIsShown
  ExitTellsDocument
CHECK_DEADLOCK FALSE
