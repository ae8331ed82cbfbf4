SPECIFICATION Spec
CONSTANTS
  u1 = u1
  r1 = r1
  r2 = r2
  c1 = c1
  Users = {u1}
  Runs = {r1, r2}
  Owner <- TwoOwner
  Cancels = {}
  Target <- NoTarget
  Faults = {}
  MaxCrashes = 0
  MaxAttempts = 1
INVARIANTS
  OneActiveRunPerUser
