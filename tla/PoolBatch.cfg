SPECIFICATION Spec
CONSTANTS
  u1 = u1
  u2 = u2
  r1 = r1
  r2 = r2
  Reserves = {r1, r2}
  Users = {u1}
  Backstop = backstop
  Config <- TwoWay
  SCALAR_7 = 100
  SCALAR_12 = 10
  SECONDS_PER_YEAR = 1000
  LEDGER_SECONDS = 3
  ORACLE_SCALAR = 100
  MIN_HF = 101
  LIQ_MIN_HF = 103
  LIQ_MAX_HF = 115
  RAMP = 1
  STALE = 2
  BstopRate = 50
  MaxPositions = 2
  MinCollateral = 1
  DEFAULT_THRESHOLD = 3
  Amounts <- LoanAmounts
  FlashAmounts = {10}
  Donations = {}
  LiqPercents = {50, 100}
  FillPercents = {50, 100}
  Prices <- UnreliablePrices
  BackstopLevels <- OnlyHealthy
  AdminStatuses = {0, 2, 4}
  TokenSupply = 80
  MaxRequests = 3
  MaxTime = 0
INVARIANTS
  PositionsAreLimited
  PoolCanPay
PROPERTIES
  RiskierCallsEndHealthy
