SPECIFICATION Spec
CONSTANTS
  Locations = {l1, l2}
  Categories = {k1}
  Posts = {p1, p2}
  Guards = {g1, g2}
  Rows = {r1, r2, r3}
  Names = {n1}
  Quantities = {1, 2}
  Callers = {c1, c2}
SYMMETRY Symmetry
INVARIANTS
  SchemaKept
  OverfilledOnlyByRaces
PROPERTIES
  DeploymentsEndOnTheirPost
CHECK_DEADLOCK FALSE
