SPECIFICATION Spec
CONSTANTS
  MaxRuns = 1
  MaxFailures = 1
  MaxCrashes = 0
INVARIANT SomeProgramSurvives
CHECK_DEADLOCK FALSE
