SPECIFICATION Spec
CONSTANTS
  u1 = u1
  u2 = u2
  r1 = r1
  r2 = r2
  Reserves = {r1}
  Users = {u1, u2}
  Backstop = backstop
  Config <- OneReserve
  SCALAR_7 = 100
  SCALAR_12 = 10
  SECONDS_PER_YEAR = 10
  LEDGER_SECONDS = 3
  ORACLE_SCALAR = 100
  MIN_HF = 101
  LIQ_MIN_HF = 103
  LIQ_MAX_HF = 115
  RAMP = 1
  STALE = 2
  BstopRate = 50
  MaxPositions = 4
  MinCollateral = 1
  DEFAULT_THRESHOLD = 3
  Amounts <- SmallAmounts
  FlashAmounts = {1, 4}
  Donations = {1}
  LiqPercents = {100}
  FillPercents = {100}
  Prices <- FixedPrices
  BackstopLevels <- OnlyHealthy
  AdminStatuses = {0}
  TokenSupply = 5
  MaxRequests = 1
  MaxTime = 3
SYMMETRY Symmetry
INVARIANTS
  TypeOK
  Solvency
  PoolCanPay
PROPERTIES
  RatesMoveOneWay
  BorrowingKeepsUtilization
