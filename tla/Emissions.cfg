SPECIFICATION Spec
CONSTANTS
  Tokens = {0, 3}
  Holders = {a, b}
  SCALAR = 2
  SCALAR_7 = 10
  SECONDS_PER_WEEK = 3
  SECONDS_PER_DAY = 2
  LEDGER_BUMP_USER = 3
  Balances <- Holdings
  Shares <- SomeShares
  Gulps = {15}
  MaxTime = 6
SYMMETRY Symmetry
INVARIANTS
  PaidForWhatWasHeld
  EmissionsAreFunded
