CONSTANTS
  Users = {u1, u2}
  Spots = {s1}
  Workers = {w1, w2}
  Slots <- MCSlots
  Windows <- MCWindows
  MaxRequests = 3
SPECIFICATION Spec
INVARIANTS
  TypeOK
  BoundedOverbooking
  OverbookingMargin
  BookedUsersExist
  CancelsAreOwned
  ReservedIsBooked
PROPERTIES
  RefinesLedger
