CONSTANTS
  Users = {u1}
  Spots = {s1}
  Workers = {w1, w2}
  PricingWorkers = {v1, v2}
  Slots <- MCSlots
  Windows <- MCWindows
  Multipliers <- MCMultipliers
  MaxMultiplier = 150
  BasePrices <- MCBases
  Scale = 15
  MaxRequests = 2
  MaxEvents = 2
  MaxPulls = 2
SPECIFICATION SystemSpec
SYMMETRY MCSymmetry
INVARIANTS
  SystemTypeOK
  OffersAlign
  EveryBookingPaid
  RewardInUnitInterval
  ArmsSamplable
PROPERTIES
  RefinesContract
