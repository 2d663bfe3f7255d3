SPECIFICATION Spec
CONSTANTS
  Items = {i1}
  Quantities <- AnyQuantities
  NoRow = NoRow
  Stores = {s1, s2}
  Transfers = {t1}
  Issuances = {n1, n2}
  Returns = {r1}
  Receipts = {g1}
SYMMETRY Symmetry
INVARIANTS
  AvailableIsDifference
  StockNonNegative
  AuditTrailExplainsStock
  OversoldOnlyByTransfer
PROPERTIES
  ImplementsPool
  TransferConserves
CONSTRAINTS
  FewDocuments
  FewNegatives
