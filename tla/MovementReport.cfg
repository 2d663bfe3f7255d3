SPECIFICATION Spec
CONSTANTS
  Items = {i1}
  Quantities = {1, 2}
  NoRow = NoRow
  Stores = {s1, s2}
  Transfers = {t1}
  Issuances = {n1}
  Returns = {}
  Receipts = {g1}
SYMMETRY Symmetry
INVARIANT
  NetMovementIsAvailable
