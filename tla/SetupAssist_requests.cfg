SPECIFICATION AssistSpec
CONSTANTS
  Writer = {w1, w2, w3}
  NoWriter = NoWriter
  MaxRuns = 1
  MaxFaults = 2
  Line = {l1}
  MaxApplies = 2
  Requests <- SetupRequests
SYMMETRY WriterSymmetry
INVARIANTS
  ReportedChangeStays
  FailedChangeUndone
  AnswersTrue
PROPERTIES
  ImplementsConfigStore
  LinesKept
