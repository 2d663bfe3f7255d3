SPECIFICATION Spec
CONSTANTS
  Guards = {g1}
  Employees = {e1, e2}
  Users = {u1}
  Roles = {q1, q2}
  Locations = {l1}
  Postings = {r1}
  ServiceNumbers = {n1, n2}
  Cnics = {k1, k2}
  Callers = {c1, c2}
  None = None
SYMMETRY Symmetry
INVARIANTS
  SchemaKept
  OpenPostingsVisible
  PromotedHoldRole
CONSTRAINTS FewTroubles FewPersons OneOfAKind
CHECK_DEADLOCK FALSE
