SPECIFICATION Spec
CONSTANTS
  p1 = p1
  p2 = p2
  p3 = p3
  Proc = {p1, p2}
  NoProc = NoProc
  PidOf <- OwnPids
  MaxAttempts = 1
  MaxCalls = 2
  MaxFaults = 1
  MaxErase = 1
SYMMETRY ProcSymmetry
INVARIANTS
  LeaseDiscipline
  ViewIsCurrent
  SingleProducer
PROPERTIES
  DocumentSurvives
  ImplementsSingleFlight
