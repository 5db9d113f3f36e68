SPECIFICATION Spec
CONSTANTS
  r1 = r1
  Reserves = {r1}
  SCALAR_7 = 100
  SCALAR_12 = 10
  SECONDS_PER_YEAR = 2
  SECONDS_PER_WEEK = 2
  MAX_RESERVES = 1
  MinBaseRate = 1
  MaxReactivity = 10
  MIN_INTEREST = 1
  Settings <- SomeSettings
  Metadata <- Configs
  AdminStatuses = {0, 4}
  BackstopLevels <- Levels
  Supplies = {10}
  Owed = {0, 5}
  MaxTime = 3
INVARIANTS
  InterestLotIsBacked
  DebtCanBeValued
PROPERTIES
  NoChangeIsRetroactive
  ChangesAreAnnounced
