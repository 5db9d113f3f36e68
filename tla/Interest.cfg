SPECIFICATION InsuredSpec
CONSTANTS
  lender = lender
  debtor = debtor
  r1 = r1
  r2 = r2
  Reserves = {r1}
  Users = {lender, debtor}
  Backstop = backstop
  Pool = pool
  Depositors = {depositor}
  BackstopToken = lpToken
  Config <- Configs
  SCALAR_7 = 100
  SCALAR_12 = 10
  SECONDS_PER_YEAR = 3
  LEDGER_SECONDS = 1
  ORACLE_SCALAR = 100
  MIN_HF = 101
  LIQ_MIN_HF = 103
  LIQ_MAX_HF = 115
  RAMP = 1
  STALE = 1
  BstopRate = 50
  MaxPositions = 4
  MinCollateral = 1
  DEFAULT_THRESHOLD = 3
  Amounts <- NoAmounts
  Donations = {}
  FlashAmounts = {1}
  BackstopLevels = {}
  AdminStatuses = {}
  LiqPercents = {}
  FillPercents = {50, 100}
  Prices <- OnePrice
  TokenSupply = 20
  MaxRequests = 1
  MaxTime = 2
  MAX_Q4W_SIZE = 1
  Q4W_LOCK_TIME = 1
  MaxShares = 3
  LpSupply = 3
  LpAmounts = {2}
  SpotPrice = 12000
  ThresholdOf <- Thresholds
  LowTokens = 2
  MIN_INTEREST = 2
  Supplied <- Collateral
  Borrowed <- Debts
  Earned <- Credits
INVARIANTS
  BooksBalance
  BackstopAuctionsAreCovered
PROPERTIES
  KeepsTheLedger
