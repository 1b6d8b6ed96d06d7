CONSTANTS
  Users = {u1}
  Spots = {s1}
  Workers = {w1}
  PricingWorkers = {v1}
  Slots <- MCSlots
  Windows <- MCOneWindow
  Multipliers <- MCMultipliers
  MaxMultiplier = 150
  BasePrices <- MCBases
  Scale = 15
  MaxRequests = 1
  MaxEvents = 1
  MaxPulls = 2
SPECIFICATION SystemSpec
INVARIANTS
  RecordedWhenReserved
