SPECIFICATION Spec
CONSTANTS
  Clients = {c1, c2, c3}
  Capacity = 2
  TimeoutsAt = {}
  MaxRounds = 2
  MaxTimeouts = 0
CHECK_DEADLOCK FALSE
INVARIANT
  NoStrayHit
