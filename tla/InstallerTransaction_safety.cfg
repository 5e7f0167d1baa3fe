SPECIFICATION Spec
CONSTANTS
  MaxRuns = 3
  MaxFailures = 3
  MaxCrashes = 2
INVARIANTS PriorRecoverable
PROPERTIES ReadvertisedAfterRestore
CHECK_DEADLOCK FALSE
