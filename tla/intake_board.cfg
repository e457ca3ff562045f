CONSTANTS
  N = 4
  Crew <- MCIntakeCrew
  RollupCards = {4}
  HumanCards = {4}
  IntakeCards = {1}
  DeliveryOf <- MCDelivery
  TopCards = {1}
  ManualCards = {3}
  SoftEdges = {}
  InfoEdges = {}
  Passes = {p1, p2}
  BlockedOutcomes = {"NEEDS_ATTENTION"}
  MaxReworks = 1
  MaxFailures = 1
  MaxOutages = 0
SPECIFICATION FairSpec
PROPERTIES
  DoomIsKept
  SettledFailureWakes
  CascadeCompletes
CHECK_DEADLOCK FALSE
