CONSTANTS
  Users = {u1}
  Spots = {s1}
  Workers = {w1, w2}
  PricingWorkers = {v1}
  Slots <- MCSlots
  Windows <- MCOneWindow
  Multipliers <- MCOneArm
  MaxMultiplier = 150
  BasePrices <- MCBases
  Scale = 15
  MaxRequests = 3
  MaxEvents = 2
  MaxPulls = 2
SPECIFICATION SystemFairSpec
PROPERTIES
  BookingsAnswered
