SPECIFICATION FairSpec
CONSTANTS
  u1 = u1
  r1 = r1
  r2 = r2
  c1 = c1
  Users = {u1}
  Runs = {r1}
  Owner <- OneOwner
  Cancels = {c1}
  Target <- OneTarget
  Faults <- EnduredFaults
  MaxCrashes = 1
  MaxAttempts = 1
PROPERTIES
  EveryRunEnds
  OrphanBuildsStopped
  CancelAnswered
