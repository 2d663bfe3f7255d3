SPECIFICATION Spec
CONSTANTS
  Guards = {g1}
  Locations = {l1}
  Offices = {o1}
  Entries = {e1, e2}
  Locks = {d1, d2}
  Allowances = {a1}
  Deductions = {x1}
  Today = 2
  Rosters <- MCRosters
  Salary <- MCSalary
  Extras = {1}
  Amounts = {2}
  EnforcePresentOnly = TRUE
  Callers = {c1, c2}
  None = None
SYMMETRY Symmetry
INVARIANTS
  SchemaKept
  DuplicatesOnlyByRaces
  OverlapOnlyByRaces
  PaidWithinSalary
  PayslipsAgree
CONSTRAINTS FewChanges FewRows
CHECK_DEADLOCK FALSE
