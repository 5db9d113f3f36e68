SPECIFICATION Spec
CONSTANTS
  u1 = u1
  u2 = u2
  p1 = p1
  p2 = p2
  p3 = p3
  Pools = {p1}
  Deployed = {p1}
  Users = {u1, u2}
  MAX_Q4W_SIZE = 2
  Q4W_LOCK_TIME = 2
  Amounts = {0, 1, 2}
  Claims = {}
  LpOuts = {}
  TokenSupply = 3
  MaxShares = 4
  MaxTime = 3
SYMMETRY Symmetry
INVARIANTS
  TypeOK
  SharesAddUp
  QueuesAreOrdered
PROPERTIES
  OnlyExpiredSharesLeave
  LastOneTakesAll
