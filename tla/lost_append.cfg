CONSTANTS
  c1 = c1
  c2 = c2
  c3 = c3
  a = a
  b = b
  Nobody = Nobody
  Calls = {c1, c2, c3}
  Items = {a, b}
  Targets = {}
SPECIFICATION Spec
INVARIANT AppendsSurvive
SYMMETRY Symmetry
CHECK_DEADLOCK FALSE
