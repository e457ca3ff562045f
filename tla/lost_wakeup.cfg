CONSTANTS
  N = 3
  Crew <- MCCrew
  RollupCards = {}
  HumanCards = {}
  IntakeCards = {}
  DeliveryOf <- MCNoDelivery
  TopCards = {1}
  ManualCards = {}
  SoftEdges = {}
  InfoEdges = {}
  Passes = {p1}
  BlockedOutcomes = {}
  MaxReworks = 0
  MaxFailures = 0
  MaxOutages = 0
SPECIFICATION FairSpec
PROPERTIES
  ApprovedChildrenWakeParent
CHECK_DEADLOCK FALSE
