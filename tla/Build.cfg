SPECIFICATION Spec
CONSTANTS
  MaxAttempts = 2
  MaxRetries = 1
  Hermetic = TRUE
  MaxFailures = 0
CHECK_DEADLOCK FALSE
INVARIANTS
  TypeOK
  OpenRowMeansEnded
  ResultsMatchReport
  ReportedRunEnds
PROPERTIES
  SettledOnce
