CONSTANTS
  Devices = {d1, d2}
  Workers = {w1, w2}
  alice = alice
  bob = bob
  Names = {alice}
  Emails = {e1}
  Blanks = {}
  MaxTaps = 2
SPECIFICATION AccountsSpec
INVARIANTS
  OneIdentity
CHECK_DEADLOCK FALSE
