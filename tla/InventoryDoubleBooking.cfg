CONSTANTS
  Users = {u1, u2}
  Spots = {s1}
  Workers = {w1, w2}
  Slots <- MCSlots
  Windows <- MCFewWindows
  MaxRequests = 2
SPECIFICATION Spec
INVARIANTS
  NoDoubleBooking
