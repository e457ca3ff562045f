SPECIFICATION Spec
CONSTANTS
  N = 2
  ReviewCards = {2}
  ParkingCards = {1}
  Returned = {1}
  Withdrawn = {2}
  MaxOutages = 1
INVARIANTS
  TypeOK
  OneTurnPerRole
PROPERTIES
  
  WorkIsTaken
CHECK_DEADLOCK FALSE
