SPECIFICATION Spec
CONSTANTS
  Users = {u1, u2, u3}
  Organizations = {o1, o2}
  Offices = {f1}
  Clients = {k1}
  RoleNames = {"organizationAdmin", "client"}
  Callers = {c1, c2}
  None = None
SYMMETRY Symmetry
INVARIANTS
  SchemaKept
  ClientAccountAtHome
  TokenStaysAtHome
PROPERTIES
  ClientKeepsAccount
CONSTRAINTS FewRemovals FewTokens FewPairs
CHECK_DEADLOCK FALSE
