SPECIFICATION FairSpec
CONSTANTS
  p1 = p1
  p2 = p2
  p3 = p3
  Proc = {p1, p2, p3}
  NoProc = NoProc
  Pids <- OwnOrReused
  Outages <- AllOrNone
  MaxFaults = 1
INVARIANTS
  HeldMarkerStands
PROPERTIES
  RefusedForAReason
  EntryEnds
