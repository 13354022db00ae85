SPECIFICATION FairSpec
CONSTANTS
  Clients = {c1, c2, c3}
  Capacity = 3
  TimeoutsAt = {"raising", "awaitUp"}
  MaxRounds = 3
  MaxTimeouts = 2
CHECK_DEADLOCK FALSE
INVARIANTS
  TypeOK
  NoStrayHit
  EveryRoundHit
PROPERTIES
  ImplementsBarrier
  HitReturnsEventually
  RaiseReturnsEventually
