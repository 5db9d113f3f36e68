SPECIFICATION FairSpec
CONSTANTS
  a1 = a1
  a2 = a2
  Assets = {a1, a2}
  LOW = 2
  RAMP = 1
  STALE = 2
  Owable = {0, 1, 2}
  MaxTokens = 3
INVARIANTS
  AuctionIsCovered
PROPERTIES
  BadDebtIsResolved
