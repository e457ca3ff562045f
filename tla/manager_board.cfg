CONSTANTS
  N = 3
  Crew <- MCCrew
  RollupCards = {}
  HumanCards = {}
  IntakeCards = {}
  DeliveryOf <- MCNoDelivery
  TopCards = {1}
  ManualCards = {}
  SoftEdges = {}
  InfoEdges = {}
  Passes = {p1, p2}
  BlockedOutcomes = {}
  MaxReworks = 1
  MaxFailures = 1
  MaxOutages = 1
SPECIFICATION Spec
INVARIANTS
  TypeOK
  LiveTurnKeepsClaim
PROPERTIES
  TurnsHoldLeases
  ClosedCardsStayClosed
  ApprovesOverSettledWork
SYMMETRY PassSymmetry
CHECK_DEADLOCK FALSE
