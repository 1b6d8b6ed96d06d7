CONSTANTS
  Users = {u1}
  Spots = {s1, s2}
  Sensors = {s1, x1}
  Workers = {w1}
  Slots <- MCSlots
  Windows <- MCWindows
  MaxRequests = 2
  MaxQueue = 2
  MaxRestarts = 1
SPECIFICATION PipelineFairSpec
INVARIANTS
  PipelineTypeOK
  StatusFollows
PROPERTIES
  SpotsReleased
