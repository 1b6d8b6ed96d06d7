CONSTANTS
  Users = {u1}
  Workers = {w1}
  Multipliers <- MCMultipliers
  MaxMultiplier = 150
  BasePrices <- MCBases
  Scale = 15
  MaxEvents = 1
  MaxPulls = 2
SPECIFICATION Spec
INVARIANTS
  RewardInUnitInterval
