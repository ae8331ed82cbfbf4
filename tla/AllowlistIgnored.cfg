SPECIFICATION Spec
CONSTANTS
  MaxAttempts = 1
  MaxRetries = 0
  Hermetic = FALSE
  MaxFailures = 0
CHECK_DEADLOCK FALSE
INVARIANTS
  OkMeansAsRequested
