SPECIFICATION Spec
CONSTANTS
  N = 2
  ReviewCards = {}
  ParkingCards = {}
  Returned = {}
  Withdrawn = {}
  MaxOutages = 0
INVARIANTS
  LiveTurnKeepsItsCard
CHECK_DEADLOCK FALSE
