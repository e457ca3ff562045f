SPECIFICATION FairSpec
CONSTANTS
  t1 = t1
  Tasks = {t1}
  ReworkCap = 1
  ParseRetries = 1
  MaxFaults = 1
  MaxRaces = 1
INVARIANTS
  TypeOK
  VerdictsAreJournalled
PROPERTIES
  HistoryIsKept
  VerdictsUseLatestReport
  ReplaysAreSafe
  DeliveriesAreDecided
CHECK_DEADLOCK FALSE
