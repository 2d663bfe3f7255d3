SPECIFICATION Spec
CONSTANTS
  Clients = {c1, c2}
  Requests = {}
  Orders = {o1}
  LineIds = {l1}
  Receipts = {g1, g2}
  Items = {i1}
  Quantities = {1}
  Portions <- SomePortions
  MaxEntries = 2
  NoRequest = NoRequest
  NoLine = NoLine
SYMMETRY Symmetry
INVARIANTS
  SchemaKept
  ReceivedWithinOrdered
