SPECIFICATION Spec
CONSTANTS
  u1 = u1
  u2 = u2
  p1 = p1
  p2 = p2
  p3 = p3
  Pools = {p1, p2, p3}
  Deployed = {p1, p2}
  Users = {u1}
  MAX_Q4W_SIZE = 1
  Q4W_LOCK_TIME = 1
  Amounts = {0, 2}
  Claims = {1}
  LpOuts = {3}
  TokenSupply = 5
  MaxShares = 4
  MaxTime = 1
SYMMETRY Symmetry
INVARIANTS
  TokensAreHeld
  StrangersHoldNothing
PROPERTIES
  OnlyDrawsCostDepositors
