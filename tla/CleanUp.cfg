SPECIFICATION Spec
CONSTANTS
  MaxAttempts = 1
  MaxRetries = 0
  Hermetic = TRUE
  MaxFailures = 1
CHECK_DEADLOCK FALSE
INVARIANTS
  ContainerConfined
  EndedBuildLeavesNothing
PROPERTIES
  BuildEnds
