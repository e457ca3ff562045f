CONSTANTS
  c1 = c1
  c2 = c2
  c3 = c3
  a = a
  b = b
  Nobody = Nobody
  Calls = {c1, c2, c3}
  Items = {a}
  Targets = {"READY", "RUNNING", "AWAITING_MANAGER_REVIEW", "APPROVED"}
SPECIFICATION Spec
INVARIANTS
  TypeOK
  QuietConnectionIsClean
  QueueIsASet
PROPERTIES
  VerdictKeepsNotes
  
SYMMETRY Symmetry
CHECK_DEADLOCK FALSE
