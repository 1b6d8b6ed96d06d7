CONSTANTS
  alice = alice
  Nobody = nobody
  Phones = {phone}
  Account <- MCAccount
  FirstWindow <- MCFirst
  MaxTaps = 2
  Users = {alice, nobody}
  Spots = {s1}
  Workers = {w1, w2}
  PricingWorkers = {v1}
  Slots <- MCSlots
  Windows <- MCWindows
  Multipliers <- MCOneArm
  MaxMultiplier = 150
  BasePrices <- MCBases
  Scale = 15
  MaxRequests = 2
  MaxEvents = 1
  MaxPulls = 2
SPECIFICATION AppSpec
SYMMETRY MCSymmetry
INVARIANTS
  AppTypeOK
  SuccessIsReserved
  ConfirmsOwnOffers
  ListsArePast
  SuccessIsListed
