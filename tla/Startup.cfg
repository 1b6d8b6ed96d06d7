CONSTANTS
  Threads = {t1}
  Seeders = {p1, p2}
  Lots <- MCLots
  MaxAttempts = 3
  MaxRequests = 2
  MaxOutages = 1
SPECIFICATION StartupFairSpec
INVARIANTS
  StartupTypeOK
  ConfiguredIsPriced
  RacesCostTwo
  LostRaceSeeded
  WaitedForGoesOn
PROPERTIES
  SeedingEnds
CHECK_DEADLOCK FALSE
