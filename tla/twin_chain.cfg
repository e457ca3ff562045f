SPECIFICATION Spec
CONSTANTS
  t1 = t1
  Tasks = {t1}
  ReworkCap = 0
  ParseRetries = 0
  MaxFaults = 0
  MaxRaces = 3
INVARIANTS
  OneChain
CHECK_DEADLOCK FALSE
