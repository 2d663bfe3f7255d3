SPECIFICATION Spec
CONSTANTS
  Clients = {c1}
  Requests = {p1}
  Orders = {o1}
  LineIds = {l1, l2}
  Receipts = {g1, g2}
  Items = {i1, i2}
  Quantities = {0, 2}
  Portions <- AnyPortions
  MaxEntries = 2
  NoRequest = NoRequest
  NoLine = NoLine
SYMMETRY Symmetry
INVARIANTS
  OrderAccountsForReceipts
  StockMatchesReceipts
PROPERTIES
  ReceiptSettlesOrder
  ClosedOrdersStay
CONSTRAINTS
  FewZeros
  DecidedFirst
  OneItemTwice
