CONSTANTS
  Devices = {d1, d2}
  Workers = {w1, w2}
  alice = alice
  bob = bob
  Names = {alice, bob, blank}
  Emails = {e1, e2}
  Blanks = {blank}
  MaxTaps = 5
SPECIFICATION AccountsSpec
SYMMETRY MCSymmetry
INVARIANTS
  AccountsTypeOK
  SharersBounded
  SharersMargin
  IdentityMatches
CHECK_DEADLOCK FALSE
