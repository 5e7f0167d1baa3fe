SPECIFICATION FairSpec
CONSTANTS
  p1 = p1
  p2 = p2
  a1 = a1
  a2 = a2
  a3 = a3
  Proc <- MCProc
  Attempt <- MCAttempt
  Owner <- MCOwner
  Enabled <- MCEnabled
  NoAttempt = NoAttempt
  MaxFaults = 1
INVARIANTS
  OneAtWork
  ReadsContained
  NothingForgotten
PROPERTIES
  RunEnds
