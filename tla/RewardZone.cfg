SPECIFICATION Spec
CONSTANTS
  p1 = p1
  p2 = p2
  u = u
  v = v
  w = w
  Pools = {p1, p2}
  Depositors <- SomeDepositors
  Founding <- SomeFounding
  Active <- SomeActive
  SCALAR_7 = 10
  SECONDS_PER_WEEK = 2
  SECONDS_PER_DAY = 1
  SECONDS_PER_HOUR = 1
  MIN_DISTRIBUTION = 1
  MAX_RZ_SIZE = 1
  MAX_BACKFILLED_EMISSIONS = 15
  Threshold = 1
  MIN_GULP = 1
  MaxShares = 1
  LpOuts = {0, 1}
  MaxTime = 4
SYMMETRY Symmetry
INVARIANTS
  PaidForWhatWasDeposited
  EmissionsAreMinted
