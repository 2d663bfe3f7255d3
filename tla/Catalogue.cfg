SPECIFICATION Spec
CONSTANTS
  Organizations = {o1, o2}
  Offices = {f1, f2}
  Users = {u1, u2}
  Categories = {k1}
  Groups = {g1}
  Vendors = {v1}
  Items = {i1}
  Stores = {s1}
  Cards = {d1}
  Orders = {p1}
  Receipts = {r1, r2}
  Callers = {c1, c2}
  None = None
SYMMETRY Symmetry
INVARIANTS
  SchemaKept
  TenantsApart
  LedgerExplained
CONSTRAINTS FewRemovals OneRequestWithOrders CardsOrOrders
CHECK_DEADLOCK FALSE
