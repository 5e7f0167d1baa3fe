SPECIFICATION FairSpec
CONSTANTS
  p1 = p1
  p2 = p2
  p3 = p3
  Proc = {p1, p2, p3}
  NoProc = NoProc
  PidOf <- SharedPid
  MaxAttempts = 2
  MaxCalls = 1
  MaxFaults = 1
  MaxErase = 0
PROPERTIES
  CallEnds
  CrashNeverBlocksSuccessor
