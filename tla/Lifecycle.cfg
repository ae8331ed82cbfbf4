SPECIFICATION Spec
CONSTANTS
  u1 = u1
  r1 = r1
  r2 = r2
  c1 = c1
  Users = {u1}
  Runs = {r1}
  Owner <- OneOwner
  Cancels = {c1}
  Target <- OneTarget
  Faults <- AllFaults
  MaxCrashes = 1
  MaxAttempts = 2
INVARIANTS
  TypeOK
  AbortsOnlyTerminalRuns
  ResultsMatchVerdict
  LifecycleInv
PROPERTIES
  RefinesStateMachine
  TerminalRowsFrozen
  CancelStopsBuild
