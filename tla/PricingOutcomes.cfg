CONSTANTS
  Users = {u1, u2}
  Workers = {w1, w2}
  Multipliers <- MCMultipliers
  MaxMultiplier = 150
  BasePrices <- MCBases
  Scale = 15
  MaxEvents = 2
  MaxPulls = 3
SPECIFICATION Spec
INVARIANTS
  TypeOK
  EvidenceConserved
  CreditsBounded
  CreditMargin
PROPERTIES
  BookedSticks
