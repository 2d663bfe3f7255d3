SPECIFICATION Spec
CONSTANTS
  Clients = {c1, c2}
  Requests = {}
  Orders = {o1}
  LineIds = {l1}
  Receipts = {g1}
  Items = {i1}
  Quantities = {1}
  Portions = {0, 1}
  MaxEntries = 1
  NoRequest = NoRequest
  NoLine = NoLine
SYMMETRY Symmetry
INVARIANT
  NoMoreThanBrought
